---- MODULE Spec2Model ----
(***************************************************************************)
(* hitrace-bench: trace-line parser, interval filters and point filters.   *)
(*                                                                         *)
(* Text is modelled as a sequence of tokens.  A token is one character     *)
(* ("7", ":", " ", "a") or one literal keyword of the program's patterns   *)
(* ("servo_memory_profiling", ": tracing_mark_write: ") that the sample    *)
(* inputs never split.  Numbers inside text are sequences of digit tokens  *)
(* and are converted by the parse operators below.                         *)
(***************************************************************************)
EXTENDS Integers, Sequences, FiniteSets, TLC

VARIABLES build, pc, traces, filters, diffs, file, parsed, reparsed,
          point_filter, run_url, points,
          values,
          shuffled,
          stats,
          results,
          bench,
          run_file,
          run_configs,
          run_config,
          trial,
          new_points,
          hdc,
          proxy,
          exec_result

vars == <<build, pc, traces, filters, diffs, file, parsed, reparsed,
          point_filter, run_url, points,
          values,
          shuffled,
          stats,
          results,
          bench,
          run_file,
          run_configs,
          run_config,
          trial,
          new_points,
          hdc,
          proxy,
          exec_result>>

----------------------------------------------------------------------------
(* Generic helpers                                                         *)

\* Rust's integer division and remainder truncate toward zero.
TruncDiv(a, b) == IF a >= 0 THEN a \div b ELSE -((-a) \div b)

TruncRem(a, b) == a - b * TruncDiv(a, b)

\* str::contains on token sequences: sub occurs as a contiguous run of s.
Contains(s, sub) ==
    \E i \in 0..(Len(s) - Len(sub)) :
        \A k \in 1..Len(sub) : s[i + k] = sub[k]

\* All sequences over S of length lo..hi.
SeqsOf(S, lo, hi) == UNION {[1..n -> S] : n \in lo..hi}

----------------------------------------------------------------------------
(* trace.rs: time stamps and their difference                              *)

NanosPerSecond == 1000000000

I32Max == 2147483647

\* 2^32 = Pow32Thousands * 1000 + Pow32Rest; 2^32 itself is not written out
\* because the arithmetic here is done in 32-bit signed integers.
Pow32Thousands == 4294967

Pow32Rest == 296

\* (d as i32) * 1000 evaluated in i32: [overflow |-> the product left the
\* i32 range, value |-> the two's-complement result].
MulThousandI32(d) ==
    IF d > I32Max \div 1000
    THEN [overflow |-> TRUE, value |-> (d - Pow32Thousands) * 1000 - Pow32Rest]
    ELSE IF d < -(I32Max \div 1000)
    THEN [overflow |-> TRUE, value |-> (d + Pow32Thousands) * 1000 + Pow32Rest]
    ELSE [overflow |-> FALSE, value |-> d * 1000]

\* time::Duration::new(seconds, nanoseconds): carries whole seconds out of
\* the nanoseconds and makes both components have the same sign.
DurationNew(seconds, nanoseconds) ==
    LET s == seconds + TruncDiv(nanoseconds, NanosPerSecond)
        n == TruncRem(nanoseconds, NanosPerSecond)
    IN  IF s > 0 /\ n < 0 THEN [seconds |-> s - 1, nanoseconds |-> n + NanosPerSecond]
        ELSE IF s < 0 /\ n > 0 THEN [seconds |-> s + 1, nanoseconds |-> n - NanosPerSecond]
        ELSE [seconds |-> s, nanoseconds |-> n]

\* difference_of_traces(trace1, trace2).  The i32 product overflows when the
\* microsecond fields are more than 2147483 apart: a build with overflow
\* checks panics, a build without them wraps.
difference_of_traces(trace1, trace2, bld) ==
    LET m == MulThousandI32(trace1.timestamp.micro - trace2.timestamp.micro)
    IN  IF m.overflow /\ bld = "debug"
        THEN [panic |-> TRUE]
        ELSE [panic |-> FALSE,
              dur |-> DurationNew(trace1.timestamp.seconds - trace2.timestamp.seconds,
                                  m.value)]

----------------------------------------------------------------------------
(* trace.rs: the trace-line parser                                         *)

Digits == {"0", "1", "2", "3", "4", "5", "6", "7", "8", "9"}

DigitVal(c) ==
    CASE c = "0" -> 0 [] c = "1" -> 1 [] c = "2" -> 2 [] c = "3" -> 3
      [] c = "4" -> 4 [] c = "5" -> 5 [] c = "6" -> 6 [] c = "7" -> 7
      [] c = "8" -> 8 [] c = "9" -> 9

DigitChar(n) ==
    CASE n = 0 -> "0" [] n = 1 -> "1" [] n = 2 -> "2" [] n = 3 -> "3"
      [] n = 4 -> "4" [] n = 5 -> "5" [] n = 6 -> "6" [] n = 7 -> "7"
      [] n = 8 -> "8" [] n = 9 -> "9"

\* \s of the regex crate, for the white space the sample lines use.
Spaces == {" "}

\* The literal ": tracing_mark_write: " of the line pattern, one token.
TMW == ": tracing_mark_write: "

\* The keyword tokens; every other token is one character.
Keywords ==
    {TMW, "servo_memory_profiling", "TESTCASE_PROFILING",
     "LargestContentfulPaint", "FirstContentfulPaint",
     "resident", "-according-to-smaps", "url", "paint_time=", "area=",
     "CrossProcessInstant", "value:", "epoch=Epoch"}

IsChar(tok) == tok # "" /\ tok \notin Keywords

\* The token at position i, "" outside the text.
At(L, i) == IF i \in 1..Len(L) THEN L[i] ELSE ""

\* F applied to the value of v (v is evaluated once).
Let1(v, F(_)) == CHOOSE r \in {F(x) : x \in {v}} : TRUE

\* The least and the greatest element of a non-empty set of integers.
Least(S) == Let1(S, LAMBDA T : CHOOSE x \in T : \A y \in T : x <= y)

Greatest(S) == Let1(S, LAMBDA T : CHOOSE x \in T : \A y \in T : x >= y)

\* The first position >= i whose token is not in Class.
RunEnd(L, i, Class) ==
    Let1(i, LAMBDA s :
        IF s > Len(L) THEN s
        ELSE Least({k \in s..(Len(L) + 1) : At(L, k) \notin Class}))

\* u64::MAX = 18446744073709551615 as a digit string.
U64MaxDigits ==
    <<"1", "8", "4", "4", "6", "7", "4", "4", "0", "7",
      "3", "7", "0", "9", "5", "5", "1", "6", "1", "5">>

StripZeros(d) == SubSeq(d, RunEnd(d, 1, {"0"}), Len(d))

\* a > b for digit strings of equal length.
RECURSIVE DigitsGreater(_, _)
DigitsGreater(a, b) ==
    IF a = <<>> THEN FALSE
    ELSE IF DigitVal(Head(a)) # DigitVal(Head(b))
    THEN DigitVal(Head(a)) > DigitVal(Head(b))
    ELSE DigitsGreater(Tail(a), Tail(b))

RECURSIVE DecimalValue(_, _)
DecimalValue(d, acc) ==
    IF d = <<>> THEN acc
    ELSE DecimalValue(Tail(d), acc * 10 + DigitVal(Head(d)))

\* str::parse::<u64>() of a string of ASCII digits: an error when the string
\* is empty or the number does not fit 64 bits.
ParseU64(d) ==
    Let1(StripZeros(d), LAMBDA z :
        IF d = <<>> THEN [ok |-> FALSE]
        ELSE IF Len(z) > Len(U64MaxDigits)
           \/ (Len(z) = Len(U64MaxDigits) /\ DigitsGreater(z, U64MaxDigits))
        THEN [ok |-> FALSE]
        ELSE [ok |-> TRUE, value |-> DecimalValue(z, 0)])

\* TraceMarker::from with B and E exchanged.
TraceMarker_from_swapped(val) ==
    CASE val = "B" -> [ok |-> TRUE, marker |-> "EndSync"]
      [] val = "E" -> [ok |-> TRUE, marker |-> "StartSync"]
      [] val = "S" -> [ok |-> TRUE, marker |-> "StartAsync"]
      [] val = "F" -> [ok |-> TRUE, marker |-> "EndAsync"]
      [] val = "C" -> [ok |-> TRUE, marker |-> "Dot"]
      [] OTHER -> [ok |-> FALSE]

\* TraceMarker::from(val)
TraceMarker_from(val) ==
    CASE val = "B" -> [ok |-> TRUE, marker |-> "StartSync"]
      [] val = "E" -> [ok |-> TRUE, marker |-> "EndSync"]
      [] val = "S" -> [ok |-> TRUE, marker |-> "StartAsync"]
      [] val = "F" -> [ok |-> TRUE, marker |-> "EndAsync"]
      [] val = "C" -> [ok |-> TRUE, marker |-> "Dot"]
      [] OTHER -> [ok |-> FALSE]

\* The part (\d+)\.(\d+): tracing_mark_write: (.)\|(\d+?)\|(.*?):(.*)\s*$ of
\* the line pattern matched at position j.  Every digit run is followed by a
\* token that is no digit, so each run is taken whole; the lazy short code
\* ends at the first colon; the greedy payload takes the rest of the line.
\* a, b, c: the ends of seconds, microseconds and sequence number; d: the
\* colon after the short code.
TailAt(L, j) ==
    Let1(RunEnd(L, j, Digits), LAMBDA a :
    Let1(RunEnd(L, a + 1, Digits), LAMBDA b :
    Let1(RunEnd(L, b + 3, Digits), LAMBDA c :
    Let1({k \in (c + 1)..Len(L) : L[k] = ":"}, LAMBDA colons :
        [ok |-> /\ a > j /\ At(L, a) = "."
                /\ b > a + 1 /\ At(L, b) = TMW
                /\ IsChar(At(L, b + 1)) /\ At(L, b + 2) = "|"
                /\ c > b + 3 /\ At(L, c) = "|"
                /\ colons # {},
         a |-> a, b |-> b, c |-> c,
         d |-> IF colons = {} THEN 0 ELSE Least(colons)]))))

\* The part \-(\d+)\s*\(\s*(\d+)\).*? of the line pattern matched at
\* position j; the lazy .*? stops at the first position the rest matches at.
\* p: the end of the pid; r..e: the number in parentheses; k: the start of
\* the seconds.
HeadAt(L, j) ==
    Let1(RunEnd(L, j + 1, Digits), LAMBDA p :
    Let1(RunEnd(L, p, Spaces), LAMBDA q :
    Let1(RunEnd(L, q + 1, Spaces), LAMBDA r :
    Let1(RunEnd(L, r, Digits), LAMBDA e :
    Let1(/\ At(L, j) = "-" /\ p > j + 1 /\ At(L, q) = "("
         /\ e > r /\ At(L, e) = ")", LAMBDA shape :
    Let1(IF shape
         THEN {k \in (e + 1)..Len(L) : At(L, k) \in Digits /\ TailAt(L, k).ok}
         ELSE {}, LAMBDA tails :
        [ok |-> tails # {},
         p |-> p, r |-> r, e |-> e,
         k |-> IF tails # {} THEN Least(tails) ELSE 0]))))))

\* The captures of the line pattern of read_file,
\*   ^\s*(.*?)\-(\d+)\s*\(\s*(\d+)\).*?(\d+)\.(\d+): tracing_mark_write:
\*   (.)\|(\d+?)\|(.*?):(.*)\s*$
\* with the regex crate's leftmost-first preference: the leading \s* is as
\* long as a match allows, the lazy name as short as a match allows.
Captures(L) ==
    Let1(RunEnd(L, 1, Spaces) - 1, LAMBDA ws :
    Let1({j \in 1..Len(L) : L[j] = "-" /\ HeadAt(L, j).ok}, LAMBDA starts :
    Let1({w \in 0..ws : \E j \in starts : j > w}, LAMBDA lead :
        IF lead = {} THEN [matched |-> FALSE]
        ELSE Let1(Greatest(lead), LAMBDA w :
             Let1(Least({j \in starts : j > w}), LAMBDA j :
             Let1(HeadAt(L, j), LAMBDA h :
             Let1(TailAt(L, h.k), LAMBDA t :
                 [matched |-> TRUE,
                  name |-> SubSeq(L, w + 1, j - 1),
                  pid |-> SubSeq(L, j + 1, h.p - 1),
                  cpu |-> SubSeq(L, h.r, h.e - 1),
                  time1 |-> SubSeq(L, h.k, t.a - 1),
                  time2 |-> SubSeq(L, t.a + 1, t.b - 1),
                  trace_marker |-> L[t.b + 1],
                  number |-> SubSeq(L, t.b + 3, t.c - 1),
                  shorthand |-> SubSeq(L, t.c + 1, t.d - 1),
                  msg |-> SubSeq(L, t.d + 1, Len(L))]))))))) 

ParseErr == [kind |-> "err"]

ParsePanic == [kind |-> "panic"]

\* match_to_trace: seconds, microseconds and marker return an Err with `?`;
\* the struct expression then evaluates pid and cpu with unwrap().
match_to_trace(c) ==
    Let1(ParseU64(c.time1), LAMBDA seconds :
    Let1(ParseU64(c.time2), LAMBDA microseconds :
    Let1(TraceMarker_from(c.trace_marker), LAMBDA trace_marker :
    Let1(ParseU64(c.pid), LAMBDA pid :
    Let1(ParseU64(c.cpu), LAMBDA cpu :
        IF ~seconds.ok THEN ParseErr
        ELSE IF ~microseconds.ok THEN ParseErr
        ELSE IF ~trace_marker.ok THEN ParseErr
        ELSE IF ~pid.ok THEN ParsePanic
        ELSE IF ~cpu.ok THEN ParsePanic
        ELSE [kind |-> "ok",
              trace |-> [name |-> c.name, pid |-> pid.value, cpu |-> cpu.value,
                         timestamp |-> [seconds |-> seconds.value,
                                        micro |-> microseconds.value],
                         trace_marker |-> trace_marker.marker,
                         number |-> c.number, shorthand |-> c.shorthand,
                         function |-> c.msg]])))))

\* line_to_trace reporting a line the pattern does not match as an error.
line_to_trace_no_match_is_err(L) ==
    Let1(L, LAMBDA l :
    Let1(Captures(l), LAMBDA c :
        IF c.matched THEN match_to_trace(c) ELSE ParseErr))

\* line_to_trace: None when the pattern does not match the line.
line_to_trace(L) ==
    Let1(L, LAMBDA l :
    Let1(Captures(l), LAMBDA c :
        IF c.matched THEN match_to_trace(c) ELSE [kind |-> "none"]))

ReadOk(ts, log) == [kind |-> "ok", traces |-> ts, logged |-> log]

ReadFailed(k, log) == [kind |-> k, traces |-> <<>>, logged |-> log]

\* CollectTraces leaving out the lines that fail to parse.
RECURSIVE CollectTraces_skip_err(_, _, _)
CollectTraces_skip_err(texts, acc, log) ==
    IF texts = <<>> THEN ReadOk(acc, log)
    ELSE Let1(line_to_trace(Head(texts)), LAMBDA r :
             CASE r.kind = "none"  -> CollectTraces_skip_err(Tail(texts), acc, log)
               [] r.kind = "ok"    -> CollectTraces_skip_err(Tail(texts), Append(acc, r.trace), log)
               [] r.kind = "err"   -> CollectTraces_skip_err(Tail(texts), acc, log)
               [] r.kind = "panic" -> ReadFailed("panic", log))

\* filter_map(line_to_trace).collect::<Result<Vec<Trace>>>(): the lines are
\* parsed in order; None is skipped, the first Err ends the collection with
\* that error, and a panic unwinds.
RECURSIVE CollectTraces(_, _, _)
CollectTraces(texts, acc, log) ==
    IF texts = <<>> THEN ReadOk(acc, log)
    ELSE Let1(line_to_trace(Head(texts)), LAMBDA r :
             CASE r.kind = "none"  -> CollectTraces(Tail(texts), acc, log)
               [] r.kind = "ok"    -> CollectTraces(Tail(texts), Append(acc, r.trace), log)
               [] r.kind = "err"   -> ReadFailed("err", log)
               [] r.kind = "panic" -> ReadFailed("panic", log))

\* The 0-based indices (enumerate) of the lines that could not be read.
UnreadableIndices(lines) ==
    LET idx == SelectSeq([i \in 1..Len(lines) |-> i], LAMBDA i : ~lines[i].readable)
    IN  [k \in 1..Len(idx) |-> idx[k] - 1]

ReadableTexts(lines) ==
    LET idx == SelectSeq([i \in 1..Len(lines) |-> i], LAMBDA i : lines[i].readable)
    IN  [k \in 1..Len(idx) |-> lines[idx[k]].text]

\* read_file(f): a missing file is an error; lines that cannot be read are
\* logged by index and left out; the readable lines are parsed.
read_file(f) ==
    IF ~f.found THEN ReadFailed("open_err", <<>>)
    ELSE Let1(ReadableTexts(f.lines), LAMBDA texts :
             CollectTraces(texts, <<>>, UnreadableIndices(f.lines)))

\* The decimal digits of a natural number.
RECURSIVE ToDecimal(_)
ToDecimal(n) ==
    IF n < 10 THEN <<DigitChar(n)>>
    ELSE Append(ToDecimal(n \div 10), DigitChar(n % 10))

RECURSIVE PadZeros(_, _)
PadZeros(d, width) == IF Len(d) >= width THEN d ELSE PadZeros(<<"0">> \o d, width)

MarkerChar(m) ==
    CASE m = "StartSync" -> "B" [] m = "EndSync" -> "E" [] m = "StartAsync" -> "S"
      [] m = "EndAsync" -> "F" [] m = "Dot" -> "C"

MicroWidth == 6

\* A record written as a trace line, after the example line of read_file
\*   org.servo.servo-44962   (  44682) [010] .... 17864.716645:
\*   tracing_mark_write: B|44682|ML: do_single_part3_compilation
\* The number in parentheses is the one the pattern captures as cpu.
Format(t) ==
    t.name \o <<"-">> \o ToDecimal(t.pid) \o <<" ", "(", " ">> \o ToDecimal(t.cpu)
      \o <<")", " ", "[", "0", "]", " ", ".", " ">>
      \o ToDecimal(t.timestamp.seconds) \o <<".">>
      \o PadZeros(ToDecimal(t.timestamp.micro), MicroWidth)
      \o <<TMW, MarkerChar(t.trace_marker), "|">> \o t.number \o <<"|">>
      \o t.shorthand \o <<":">> \o t.function

----------------------------------------------------------------------------
(* filter.rs: interval filters                                             *)

\* A filter predicate as built by From<JsonFilterDescription>:
\* trace.function.contains(partial).
Pred(partial, t) == Contains(t.function, partial)

\* filter_to_duration with the two counts of the error exchanged.
filter_to_duration_swapped(f, v, bld) ==
    LET first == SelectSeq(v, LAMBDA t : Pred(f.first, t))
        last  == SelectSeq(v, LAMBDA t : Pred(f.last, t))
    IN  IF Len(first) # 1 \/ Len(last) # 1
        THEN [panic |-> FALSE, ok |-> FALSE, name |-> f.name,
              first |-> Len(last), last |-> Len(first)]
        ELSE LET d == difference_of_traces(last[1], first[1], bld)
             IN  IF d.panic THEN [panic |-> TRUE]
                 ELSE [panic |-> FALSE, ok |-> TRUE, name |-> f.name, dur |-> d.dur]

\* Filter::filter_to_duration(&self, v)
filter_to_duration(f, v, bld) ==
    LET first == SelectSeq(v, LAMBDA t : Pred(f.first, t))
        last  == SelectSeq(v, LAMBDA t : Pred(f.last, t))
    IN  IF Len(first) # 1 \/ Len(last) # 1
        THEN [panic |-> FALSE, ok |-> FALSE, name |-> f.name,
              first |-> Len(first), last |-> Len(last)]
        ELSE LET d == difference_of_traces(last[1], first[1], bld)
             IN  IF d.panic THEN [panic |-> TRUE]
                 ELSE [panic |-> FALSE, ok |-> TRUE, name |-> f.name, dur |-> d.dur]


\* CollectDifferences collecting into a Result: the first Err ends the
\* evaluation of the remaining filters.
RECURSIVE CollectDifferences_stop_at_err(_, _, _, _, _)
CollectDifferences_stop_at_err(v, fs, bld, acc, calls) ==
    IF fs = <<>> THEN [panic |-> FALSE, map |-> acc, calls |-> calls]
    ELSE LET r == filter_to_duration(Head(fs), v, bld)
         IN  IF r.panic THEN [panic |-> TRUE, map |-> <<>>, calls |-> Append(calls, r)]
             ELSE IF ~r.ok
             THEN [panic |-> FALSE,
                   map |-> [n \in DOMAIN acc \cup {r.name} |->
                               IF n = r.name THEN r ELSE acc[n]],
                   calls |-> Append(calls, r)]
             ELSE CollectDifferences_stop_at_err(v, Tail(fs), bld,
                      [n \in DOMAIN acc \cup {r.name} |->
                          IF n = r.name THEN r ELSE acc[n]],
                      Append(calls, r))

\* find_notable_differences(v, filters): the filters are evaluated in order
\* and the (name, result) pairs are collected into a HashMap keyed by filter
\* name, so a later filter of the same name replaces the earlier entry.  An
\* Err result is a value like any other; a panic in one evaluation unwinds
\* the whole call.  calls lists the results of the filter_to_duration calls
\* that were made, in order.
RECURSIVE CollectDifferences(_, _, _, _, _)
CollectDifferences(v, fs, bld, acc, calls) ==
    IF fs = <<>> THEN [panic |-> FALSE, map |-> acc, calls |-> calls]
    ELSE LET r == filter_to_duration(Head(fs), v, bld)
         IN  IF r.panic THEN [panic |-> TRUE, map |-> <<>>, calls |-> Append(calls, r)]
             ELSE CollectDifferences(v, Tail(fs), bld,
                      [n \in DOMAIN acc \cup {r.name} |->
                          IF n = r.name THEN r ELSE acc[n]],
                      Append(calls, r))

find_notable_differences(v, fs, bld) == CollectDifferences(v, fs, bld, <<>>, <<>>)

----------------------------------------------------------------------------
(* Bounds and sample inputs of the interval-filter specification           *)

MaxTraces == 3

\* Trace::new of the tests, with the microsecond field made a parameter.
MkTrace(secs, micro, marker, function) ==
    [name |-> <<"T">>, pid |-> 1, cpu |-> 1,
     timestamp |-> [seconds |-> secs, micro |-> micro],
     trace_marker |-> marker, number |-> <<"1">>, shorthand |-> <<"1">>,
     function |-> function]

\* Time stamps as match_to_trace can produce them: the microsecond field is
\* whatever digit string follows the dot (10.3000000 gives micro = 3000000).
SampleStamps ==
    { <<10, 0>>, <<12, 500000>>, <<11, 999999>>, <<10, 3000000>> }

SampleTraces ==
    { MkTrace(ts[1], ts[2], "Dot", <<w>>) : ts \in SampleStamps, w \in {"A", "B"} }

SampleFilters ==
    { [name |-> n, first |-> <<a>>, last |-> <<b>>] :
          n \in {"f", "g"}, a \in {"A", "B"}, b \in {"A", "B"} }

NoFile == [found |-> FALSE, lines |-> <<>>]

NotRead == [kind |-> "none", traces |-> <<>>, logged |-> <<>>]

NoDiffs == [panic |-> FALSE, map |-> <<>>, calls |-> <<>>]

NoPointFilter ==
    [name |-> <<>>, match_str |-> <<>>, no_unit_conversion |-> FALSE,
     point_filter_type |-> "Default"]

NoPoints == [panic |-> FALSE, points |-> <<>>, logged |-> <<>>, calls |-> <<>>]

InitFilter ==
    /\ build \in {"debug", "release"}
    /\ pc = "filter"
    /\ traces \in SeqsOf(SampleTraces, 0, MaxTraces)
    /\ filters \in {fs \in SeqsOf(SampleFilters, 2, 2) : fs[1].name = "f"}
    /\ diffs = NoDiffs
    /\ file = NoFile
    /\ parsed = NotRead
    /\ reparsed = <<>>
    /\ point_filter = NoPointFilter
    /\ run_url = <<>>
    /\ points = NoPoints
    /\ values = <<>>
    /\ shuffled = <<>>
    /\ stats = <<>>
    /\ results = <<>>
    /\ bench = <<>>
    /\ run_file = <<>>
    /\ run_configs = <<>>
    /\ run_config = <<>>
    /\ trial = 0
    /\ new_points = <<>>
    /\ hdc = <<>>
    /\ proxy = <<>>
    /\ exec_result = ""

\* One trial's interval evaluation: find_notable_differences over the
\* capture's records.
FindNotableDifferences ==
    /\ pc = "filter"
    /\ diffs' = find_notable_differences(traces, filters, build)
    /\ pc' = "filtered"
    /\ UNCHANGED <<build, traces, filters, file, parsed, reparsed,
                   point_filter, run_url, points,
                   values,
                   shuffled,
                   stats,
                   results,
                   bench,
                   run_file,
                   run_configs,
                   run_config,
                   trial,
                   new_points,
                   hdc,
                   proxy,
                   exec_result>>

NextFilter == FindNotableDifferences

SpecFilter == InitFilter /\ [][NextFilter]_vars

----------------------------------------------------------------------------
(* Properties of the interval filters (SpecFilter)                         *)

MicrosPerSecond == 1000000

\* A time stamp in microseconds.
Micros(ts) == ts.seconds * MicrosPerSecond + ts.micro

\* The duration d is exactly e microseconds.
IsMicros(d, e) ==
    /\ d.seconds * MicrosPerSecond + TruncDiv(d.nanoseconds, 1000) = e
    /\ TruncRem(d.nanoseconds, 1000) = 0

Starts(f) == SelectSeq(traces, LAMBDA t : Pred(f.first, t))

Ends(f) == SelectSeq(traces, LAMBDA t : Pred(f.last, t))

Unique(f) == Len(Starts(f)) = 1 /\ Len(Ends(f)) = 1

\* The i-th filter_to_duration call returned the duration of e microseconds.
ReturnsMicros(i, e) ==
    /\ ~diffs.calls[i].panic
    /\ diffs.calls[i].ok
    /\ IsMicros(diffs.calls[i].dur, e)

\* C1 (as claimed): filter_to_duration returns a duration if and only if
\* exactly one record satisfies the start predicate and exactly one the end
\* predicate, and the duration is end.timestamp - start.timestamp to the
\* microsecond.
C1_DurationIffUniqueAndExact ==
    pc = "filtered" =>
        \A i \in 1..Len(diffs.calls) :
            LET f == filters[i]
                r == diffs.calls[i]
            IN  /\ ~r.panic
                /\ r.ok <=> Unique(f)
                /\ Unique(f) =>
                     ReturnsMicros(i, Micros(Ends(f)[1].timestamp)
                                       - Micros(Starts(f)[1].timestamp))

\* C2: a filter whose start count or end count is not exactly one yields an
\* error value (no panic, no pick of one record) carrying the filter name
\* and both observed counts.
C2_AmbiguityIsErrorWithCounts ==
    pc = "filtered" =>
        \A i \in 1..Len(diffs.calls) :
            LET f == filters[i]
                r == diffs.calls[i]
            IN  ~Unique(f) =>
                    /\ ~r.panic
                    /\ ~r.ok
                    /\ r.name = f.name
                    /\ r.first = Len(Starts(f))
                    /\ r.last = Len(Ends(f))

\* Two start matches and one end match were reported as counts (2, 1).
C2_Witness ==
    /\ pc = "filtered"
    /\ \E i \in 1..Len(diffs.calls) :
          /\ Len(Starts(filters[i])) = 2
          /\ Len(Ends(filters[i])) = 1
          /\ ~diffs.calls[i].panic
          /\ ~diffs.calls[i].ok
          /\ diffs.calls[i].first = 2
          /\ diffs.calls[i].last = 1

\* C3 (as claimed): when the unique end record is chronologically before the
\* unique start record the filter succeeds with the negative duration
\* (end.seconds*10^6 + end.micro) - (start.seconds*10^6 + start.micro).
C3_NegativeDurationExact ==
    pc = "filtered" =>
        \A i \in 1..Len(diffs.calls) :
            LET f == filters[i]
            IN  (Unique(f) /\ Micros(Ends(f)[1].timestamp)
                                < Micros(Starts(f)[1].timestamp))
                => ReturnsMicros(i, Micros(Ends(f)[1].timestamp)
                                     - Micros(Starts(f)[1].timestamp))

\* The filters whose entry survives in the map: the last of each name.
LastOfName(i) == \A j \in (i + 1)..Len(filters) : filters[j].name # filters[i].name

\* C4: one result per filter name; a filter's result is what the filter
\* yields on the records when evaluated alone; an ambiguity error neither
\* ends the evaluation of the later filters nor changes their results.
C4_FailuresAreLocal ==
    pc = "filtered" =>
        /\ \A i \in 1..Len(diffs.calls) :
              /\ diffs.calls[i] =
                    find_notable_differences(traces, <<filters[i]>>, build).calls[1]
              /\ (i < Len(diffs.calls)) => ~diffs.calls[i].panic
        /\ (Len(diffs.calls) < Len(filters)) => diffs.calls[Len(diffs.calls)].panic
        /\ ~diffs.panic =>
              /\ DOMAIN diffs.map = {filters[i].name : i \in 1..Len(filters)}
              /\ \A i \in 1..Len(filters) :
                    LastOfName(i) => diffs.map[filters[i].name] = diffs.calls[i]

\* The first filter failed for ambiguity and the second still produced its
\* duration under its own name.
C4_Witness ==
    /\ pc = "filtered"
    /\ ~diffs.panic
    /\ filters[1].name # filters[2].name
    /\ ~diffs.map[filters[1].name].ok
    /\ diffs.map[filters[2].name].ok

----------------------------------------------------------------------------
(* Bounds and sample inputs of the parser specification                    *)

MaxLines == 3

\* 2^64, the least number that does not fit u64.
TooBig ==
    <<"1", "8", "4", "4", "6", "7", "4", "4", "0", "7",
      "3", "7", "0", "9", "5", "5", "1", "6", "1", "6">>

\* A line written field by field: name-pid (tgid) [0] . sec.usec: tracing_mark_write: m|seq|short:payload
RawLine(name, pid, tgid, sec, usec, m, seq, short, payload) ==
    name \o <<"-">> \o pid \o <<" ", "(", " ">> \o tgid \o <<")", " ", "[", "0", "]", " ", ".", " ">>
      \o sec \o <<".">> \o usec \o <<TMW, m, "|">> \o seq \o <<"|">> \o short \o <<":">> \o payload

\* Lines every field of which is well-formed, one for each marker.
GoodLines ==
    { RawLine(<<"a">>, <<"7">>, <<"3">>, <<"1", "0">>, <<"0", "0", "0", "0", "0", "0">>,
              "B", <<"1">>, <<"H">>, <<"A">>),
      RawLine(<<"a">>, <<"7">>, <<"3">>, <<"1", "2">>, <<"5", "0", "0", "0", "0", "0">>,
              "E", <<"1">>, <<"H">>, <<"A", " ">>),
      RawLine(<<"a", ".", "b">>, <<"7">>, <<"3">>, <<"1", "1">>, <<"9", "9", "9", "9", "9", "9">>,
              "S", <<"4", "2">>, <<"M", "L">>, <<" ", "f">>),
      RawLine(<<"a">>, <<"7">>, <<"3">>, <<"1", "1">>, <<"0", "0", "0", "1", "2", "3">>,
              "F", <<"1">>, <<>>, <<"x", ":", "y">>),
      \* leading blanks, pid with leading zeros, no blanks around the
      \* parentheses, a one-digit microsecond field
      <<" ", " ", "a", "-", "0", "7", "(", "3", ")", "x", "1", "2", ".", "5", TMW,
        "E", "|", "1", "2", "|", "M", ":", " ", "f">>,
      \* a thread name that itself contains "-1 (2)"
      <<"a", "-", "1", " ", "(", "2", ")", "b", "-", "7", " ", "(", "3", ")", " ",
        "1", "0", ".", "0", TMW, "C", "|", "1", "|", "H", ":", "A">>,
      \* a seven-digit microsecond field
      RawLine(<<"a">>, <<"7">>, <<"3">>, <<"1", "0">>, <<"3", "0", "0", "0", "0", "0", "0">>,
              "B", <<"1">>, <<"H">>, <<"A">>) }

\* Lines the pattern does not match: an empty line, a line with an empty
\* sequence number, a trace line of another event.
OtherLines ==
    { <<>>,
      RawLine(<<"a">>, <<"7">>, <<"3">>, <<"1", "0">>, <<"0">>, "B", <<>>, <<"H">>, <<"A">>),
      <<"a", "-", "7", " ", "(", "3", ")", " ", "1", "0", ".", "0", ":", " ", "s">> }

\* Lines of the right shape with a marker outside B, E, S, F, C.
BadMarkerLines ==
    { RawLine(<<"a">>, <<"7">>, <<"3">>, <<"1", "0">>, <<"0">>, "X", <<"1">>, <<"H">>, <<"A">>) }

\* Lines of the right shape with one integer field that does not fit u64.
BigPidLine ==
    RawLine(<<"a">>, TooBig, <<"3">>, <<"1", "0">>, <<"0">>, "B", <<"1">>, <<"H">>, <<"A">>)

BigTgidLine ==
    RawLine(<<"a">>, <<"7">>, TooBig, <<"1", "0">>, <<"0">>, "B", <<"1">>, <<"H">>, <<"A">>)

BigSecondsLine ==
    RawLine(<<"a">>, <<"7">>, <<"3">>, TooBig, <<"0">>, "B", <<"1">>, <<"H">>, <<"A">>)

BigMicroLine ==
    RawLine(<<"a">>, <<"7">>, <<"3">>, <<"1", "0">>, TooBig, "B", <<"1">>, <<"H">>, <<"A">>)

BigNumberLines == {BigPidLine, BigTgidLine, BigSecondsLine, BigMicroLine}

Unreadable == [readable |-> FALSE, text |-> <<>>]

SampleLines ==
    { [readable |-> TRUE, text |-> l] :
          l \in GoodLines \cup OtherLines \cup BadMarkerLines \cup BigNumberLines }
    \cup {Unreadable}

InitParse ==
    /\ build = "debug"
    /\ pc = "read"
    /\ traces = <<>>
    /\ filters = <<>>
    /\ diffs = NoDiffs
    /\ file \in {NoFile} \cup
            { [found |-> TRUE, lines |-> ls] : ls \in SeqsOf(SampleLines, 0, MaxLines) }
    /\ parsed = NotRead
    /\ reparsed = <<>>
    /\ point_filter = NoPointFilter
    /\ run_url = <<>>
    /\ points = NoPoints
    /\ values = <<>>
    /\ shuffled = <<>>
    /\ stats = <<>>
    /\ results = <<>>
    /\ bench = <<>>
    /\ run_file = <<>>
    /\ run_configs = <<>>
    /\ run_config = <<>>
    /\ trial = 0
    /\ new_points = <<>>
    /\ hdc = <<>>
    /\ proxy = <<>>
    /\ exec_result = ""

\* read_file on the capture; the records of a successful read are the
\* trial's record list.
ReadFile ==
    /\ pc = "read"
    /\ parsed' = read_file(file)
    /\ traces' = parsed'.traces
    /\ pc' = "parsed"
    /\ UNCHANGED <<build, filters, diffs, file, reparsed,
                   point_filter, run_url, points,
                   values,
                   shuffled,
                   stats,
                   results,
                   bench,
                   run_file,
                   run_configs,
                   run_config,
                   trial,
                   new_points,
                   hdc,
                   proxy,
                   exec_result>>

\* Every record of the capture is written as a line and parsed again.
RoundTrip ==
    /\ pc = "parsed"
    /\ parsed.kind = "ok"
    /\ reparsed' = [i \in 1..Len(traces) |-> line_to_trace(Format(traces[i]))]
    /\ pc' = "reparsed"
    /\ UNCHANGED <<build, traces, filters, diffs, file, parsed,
                   point_filter, run_url, points,
                   values,
                   shuffled,
                   stats,
                   results,
                   bench,
                   run_file,
                   run_configs,
                   run_config,
                   trial,
                   new_points,
                   hdc,
                   proxy,
                   exec_result>>

NextParse == ReadFile \/ RoundTrip

SpecParse == InitParse /\ [][NextParse]_vars

----------------------------------------------------------------------------
(* Properties of the parser (SpecParse)                                    *)

Texts == ReadableTexts(file.lines)

Matches(l) == Captures(l).matched

MarkerChars == {"B", "E", "S", "F", "C"}

BadMarker(l) == Matches(l) /\ Captures(l).trace_marker \notin MarkerChars

\* Every integer field of a matching line fits u64 and its marker is known.
WellFormed(l) ==
    /\ Matches(l)
    /\ ~BadMarker(l)
    /\ \A d \in {Captures(l).pid, Captures(l).cpu, Captures(l).time1, Captures(l).time2} :
          ParseU64(d).ok

\* C5: a line the pattern does not match gives neither a record nor an
\* error: when the matching lines are well-formed, the capture parses to
\* exactly one record per matching line, in line order, however many
\* non-matching lines lie between them.
C5_NonMatchingLinesAreSkipped ==
    (pc = "parsed" /\ file.found) =>
        LET matching == SelectSeq(Texts, Matches)
        IN  (\A i \in 1..Len(matching) : WellFormed(matching[i])) =>
               /\ parsed.kind = "ok"
               /\ Len(parsed.traces) = Len(matching)
               /\ \A i \in 1..Len(matching) :
                     /\ parsed.traces[i].function = Captures(matching[i]).msg
                     /\ parsed.traces[i].name = Captures(matching[i]).name
                     /\ parsed.traces[i].number = Captures(matching[i]).number

\* A non-matching line between two matching lines: two records, no error.
C5_Witness ==
    /\ pc = "parsed"
    /\ Len(Texts) = 3
    /\ Matches(Texts[1]) /\ ~Matches(Texts[2]) /\ Matches(Texts[3])
    /\ parsed.kind = "ok"
    /\ Len(parsed.traces) = 2

C7_BigNumberNeverPanics ==
    pc = "parsed" => parsed.kind # "panic"

\* C8: every record written as a line and parsed again is the same record
\* (name, pid, time stamp, marker, sequence number, short code, payload).
C8_RoundTrip ==
    pc = "reparsed" =>
        \A i \in 1..Len(traces) :
            /\ reparsed[i].kind = "ok"
            /\ reparsed[i].trace.name = traces[i].name
            /\ reparsed[i].trace.pid = traces[i].pid
            /\ reparsed[i].trace.timestamp = traces[i].timestamp
            /\ reparsed[i].trace.trace_marker = traces[i].trace_marker
            /\ reparsed[i].trace.number = traces[i].number
            /\ reparsed[i].trace.shorthand = traces[i].shorthand
            /\ reparsed[i].trace.function = traces[i].function

\* A StartSync record and an EndSync record went through the round trip,
\* one of them read from a line that is not the line Format writes.
C8_Witness ==
    /\ pc = "reparsed"
    /\ \E i, j \in 1..Len(traces) :
          /\ traces[i].trace_marker = "StartSync"
          /\ traces[j].trace_marker = "EndSync"
          /\ reparsed[i].kind = "ok"
          /\ reparsed[j].kind = "ok"
    /\ \E k \in 1..Len(Texts) : WellFormed(Texts[k]) /\ Format(line_to_trace(Texts[k]).trace) # Texts[k]

----------------------------------------------------------------------------
(* point_filters.rs: point extraction                                      *)

SERVO_MEMORY_PROFILING_STRING == "servo_memory_profiling"

SERVO_LCP_STRING == "LargestContentfulPaint"

SERVO_FCP_STRING == "FirstContentfulPaint"

\* The literal "TESTCASE_PROFILING" of the pre-filter and of TESTCASE_REGEX.
TESTCASE_PROFILING_STRING == "TESTCASE_PROFILING"

\* The literal resident-according-to-smaps of SMAPS_REGEX, two tokens, so
\* that a match key "resident" is a substring of it.
SMAPS_KEY == <<"resident", "-according-to-smaps">>

\* \w of the regex crate, for the tokens the sample payloads use.
WordTokens ==
    Digits \cup {"a", "h", "j", "k", "o", "s", "t", "u", "v", "x", "M", "_"}
           \cup {"servo_memory_profiling", "TESTCASE_PROFILING",
                 "LargestContentfulPaint", "FirstContentfulPaint",
                 "resident", "url", "CrossProcessInstant"}

\* The first position of the run of Class tokens that ends at position e
\* (e + 1 when the token at e is not in Class).
RunStart(L, e, Class) ==
    Let1(e, LAMBDA t :
        IF t < 1 THEN t + 1
        ELSE Greatest({k \in 0..t : At(L, k) \notin Class}) + 1)

\* The tail <sep>(\d+)$ of the first alternative of a report pattern: the
\* digits are the run that ends the payload, the separator stands before it.
SpaceTail(L, Sep) ==
    Let1(RunStart(L, Len(L), Digits), LAMBDA s :
        [ok |-> s <= Len(L) /\ At(L, s - 1) \in Sep,
         sep |-> s - 1,
         value |-> SubSeq(L, s, Len(L))])

\* The tail \|(\d+)\|\w*$ of the second alternative: the last token that is
\* no \w is the closing bar, the digits are the run before it.
PipeTail(L) ==
    Let1(RunStart(L, Len(L), WordTokens) - 1, LAMBDA m :
    Let1(RunStart(L, m - 1, Digits), LAMBDA s :
        [ok |-> At(L, m) = "|" /\ s <= m - 1 /\ At(L, s - 1) = "|",
         sep |-> s - 1,
         value |-> SubSeq(L, s, m - 1)]))

\* One alternative of MEMORY_REPORT_REGEX: ^servo_memory_profiling:(.*?)<tail>
MemoryReportAlt(L, tail) ==
    Let1(tail, LAMBDA t :
        [matched |-> /\ At(L, 1) = SERVO_MEMORY_PROFILING_STRING /\ At(L, 2) = ":"
                     /\ t.ok /\ t.sep >= 3,
         name |-> SubSeq(L, 3, t.sep - 1),
         value |-> t.value])

\* ^servo_memory_profiling:(.*?)\s(\d+)$|^servo_memory_profiling:(.*?)\|(\d+)\|\w*$
\* The first alternative that matches gives the captures.
MEMORY_REPORT_REGEX(L) ==
    Let1(MemoryReportAlt(L, SpaceTail(L, Spaces)), LAMBDA a :
        IF a.matched THEN a ELSE MemoryReportAlt(L, PipeTail(L)))

\* One alternative of MEMORY_URL_REPORT_REGEX:
\* ^servo_memory_profiling:url\((.*?)\)\/(.*?)<tail>; the lazy url ends at the
\* first ")/" that leaves room for the tail.
MemoryUrlAlt(L, tail) ==
    Let1(tail, LAMBDA t :
    Let1({k \in 5..(t.sep - 2) : L[k] = ")" /\ L[k + 1] = "/"}, LAMBDA closes :
    Let1(IF closes = {} THEN 0 ELSE Least(closes), LAMBDA k :
        [matched |-> /\ At(L, 1) = SERVO_MEMORY_PROFILING_STRING /\ At(L, 2) = ":"
                     /\ At(L, 3) = "url" /\ At(L, 4) = "("
                     /\ t.ok /\ closes # {},
         url |-> IF closes = {} THEN <<>> ELSE SubSeq(L, 5, k - 1),
         subsystem_path |-> IF closes = {} THEN <<>> ELSE SubSeq(L, k + 2, t.sep - 1),
         value |-> t.value])))

MEMORY_URL_REPORT_REGEX(L) ==
    Let1(MemoryUrlAlt(L, SpaceTail(L, Spaces)), LAMBDA a :
        IF a.matched THEN a ELSE MemoryUrlAlt(L, PipeTail(L)))

\* One alternative of SMAPS_REGEX:
\* ^servo_memory_profiling:(resident-according-to-smaps)\/(.*)<tail>
SmapsAlt(L, tail) ==
    Let1(tail, LAMBDA t :
        [matched |-> /\ At(L, 1) = SERVO_MEMORY_PROFILING_STRING /\ At(L, 2) = ":"
                     /\ SubSeq(L, 3, 4) = SMAPS_KEY /\ At(L, 5) = "/"
                     /\ t.ok /\ t.sep >= 6,
         key |-> SMAPS_KEY,
         fn_name |-> SubSeq(L, 6, t.sep - 1),
         value |-> t.value])

SMAPS_REGEX(L) ==
    Let1(SmapsAlt(L, SpaceTail(L, Spaces)), LAMBDA a :
        IF a.matched THEN a ELSE SmapsAlt(L, PipeTail(L)))

\* One alternative of TESTCASE_REGEX: ^TESTCASE_PROFILING: (.*?)<tail>
TestcaseAlt(L, tail) ==
    Let1(tail, LAMBDA t :
        [matched |-> /\ At(L, 1) = TESTCASE_PROFILING_STRING /\ At(L, 2) = ":"
                     /\ At(L, 3) = " " /\ t.ok /\ t.sep >= 4,
         case_name |-> SubSeq(L, 4, t.sep - 1),
         value |-> t.value])

\* ^TESTCASE_PROFILING: (.*?) (\d+)$|^TESTCASE_PROFILING: (.*?)\|(\d+)\|\w*$
TESTCASE_REGEX(L) ==
    Let1(TestcaseAlt(L, SpaceTail(L, {" "})), LAMBDA a :
        IF a.matched THEN a ELSE TestcaseAlt(L, PipeTail(L)))

\* ^(<keyword>)\|\w*\|(.*?)$ for the keyword of LCP_REGEX or FCP_REGEX.
PaintRegex(L, keyword) ==
    Let1(RunEnd(L, 3, WordTokens), LAMBDA w :
        [matched |-> At(L, 1) = keyword /\ At(L, 2) = "|" /\ At(L, w) = "|",
         filter_name |-> keyword,
         key_values |-> SubSeq(L, w + 1, Len(L))])

LCP_REGEX(L) == PaintRegex(L, SERVO_LCP_STRING)

FCP_REGEX(L) == PaintRegex(L, SERVO_FCP_STRING)

\* ^(?:epoch=Epoch\(\d*\),)?paint_time=CrossProcessInstant\s*\{\s*value:\s*(\d+)
\*  \s*\},(?:area=(\d*).*$)?
\* has_area: the optional last group took part in the match.
CROSS_PROCESS_INSTANT(L) ==
    Let1(RunEnd(L, 3, Digits), LAMBDA e :
    Let1(IF /\ At(L, 1) = "epoch=Epoch" /\ At(L, 2) = "("
            /\ At(L, e) = ")" /\ At(L, e + 1) = ","
         THEN e + 2 ELSE 1, LAMBDA p :
    Let1(RunEnd(L, p + 2, Spaces), LAMBDA a :
    Let1(RunEnd(L, a + 1, Spaces), LAMBDA b :
    Let1(RunEnd(L, b + 1, Spaces), LAMBDA c :
    Let1(RunEnd(L, c, Digits), LAMBDA d :
    Let1(RunEnd(L, d, Spaces), LAMBDA f :
    Let1(RunEnd(L, f + 3, Digits), LAMBDA g :
        [matched |-> /\ At(L, p) = "paint_time=" /\ At(L, p + 1) = "CrossProcessInstant"
                     /\ At(L, a) = "{" /\ At(L, b) = "value:" /\ d > c
                     /\ At(L, f) = "}" /\ At(L, f + 1) = ",",
         paint_time |-> SubSeq(L, c, d - 1),
         has_area |-> At(L, f + 2) = "area=",
         area |-> SubSeq(L, f + 3, g - 1)]))))))))

\* The outcome of a handler: a panic, or an Option as a list of points.
Panicked == [panic |-> TRUE, points |-> <<>>]

Some(ps) == [panic |-> FALSE, points |-> ps]

None == [panic |-> FALSE, points |-> <<>>]

\* A Point; trace is an Option: <<t>> for Some(t), <<>> for None.
MkPoint(name, self, kind, value, trace) ==
    [name |-> name, no_unit_conversion |-> self.no_unit_conversion,
     point_type |-> [kind |-> kind, value |-> value], trace |-> <<trace>>]

\* Suffix without the skip(1): the whole path follows the name.
Suffix_keep_first(subsystem_path) ==
    IF subsystem_path = <<>> THEN <<>> ELSE <<"/">> \o subsystem_path

\* subsystem_path.split('/').skip(1).join("/"), with a leading '/' when it is
\* not empty.
Suffix(subsystem_path) ==
    Let1(subsystem_path, LAMBDA path :
    Let1({k \in 1..Len(path) : path[k] = "/"}, LAMBDA slashes :
        IF slashes = {} THEN <<>>
        ELSE Let1(SubSeq(path, Least(slashes) + 1, Len(path)), LAMBDA rest :
                 IF rest = <<>> THEN <<>> ELSE <<"/">> \o rest)))

\* filter_memory_url accepting only a url equal to the target url.
filter_memory_url_equal_url(self, url, groups, trace) ==
    Let1(ParseU64(groups.value), LAMBDA value :
        IF ~value.ok THEN Panicked
        ELSE IF groups.url = url
        THEN Some(<<MkPoint(url \o <<"/">> \o self.name \o Suffix(groups.subsystem_path),
                            self, "MemoryUrl", value.value, trace)>>)
        ELSE None)

\* filter_memory_url: the value is parsed before the url is compared.
filter_memory_url(self, url, groups, trace) ==
    Let1(ParseU64(groups.value), LAMBDA value :
        IF ~value.ok THEN Panicked
        ELSE IF Contains(groups.url, url)
        THEN Some(<<MkPoint(url \o <<"/">> \o self.name \o Suffix(groups.subsystem_path),
                            self, "MemoryUrl", value.value, trace)>>)
        ELSE None)

\* filter_smaps comparing the second capture, the tag, with match_str.
filter_smaps_tag(self, url, groups, trace) ==
    IF groups.fn_name # self.match_str THEN None
    ELSE Let1(ParseU64(groups.value), LAMBDA value :
             IF ~value.ok THEN Panicked
             ELSE Some(<<MkPoint(url \o <<"/">> \o self.name, self, "Smaps",
                                 value.value, trace)>>))

\* filter_smaps: the first capture is compared with match_str before the
\* value is parsed.
filter_smaps(self, url, groups, trace) ==
    IF groups.key # self.match_str THEN None
    ELSE Let1(ParseU64(groups.value), LAMBDA value :
             IF ~value.ok THEN Panicked
             ELSE Some(<<MkPoint(url \o <<"/">> \o self.name, self, "Smaps",
                                 value.value, trace)>>))

filter_memory(self, url, groups, trace) ==
    Let1(ParseU64(groups.value), LAMBDA value :
        IF ~value.ok THEN Panicked
        ELSE Some(<<MkPoint(url \o <<"/">> \o self.name, self, "MemoryReport",
                            value.value, trace)>>))

\* filter_testcase looking for match_str in the whole payload.
filter_testcase_whole_payload(self, url, groups, trace) ==
    Let1(ParseU64(groups.value), LAMBDA value :
        IF ~value.ok THEN Panicked
        ELSE IF Contains(trace.function, self.match_str)
        THEN Some(<<MkPoint(url \o <<"/">>, self, "Testcase", value.value, trace)>>)
        ELSE None)

\* filter_testcase: the point is named url + "/".
filter_testcase(self, url, groups, trace) ==
    Let1(ParseU64(groups.value), LAMBDA value :
        IF ~value.ok THEN Panicked
        ELSE IF Contains(groups.case_name, self.match_str)
        THEN Some(<<MkPoint(url \o <<"/">>, self, "Testcase", value.value, trace)>>)
        ELSE None)

\* parse_lcp_trace with the two captures exchanged.
parse_lcp_trace_swapped(input) ==
    Let1(CROSS_PROCESS_INSTANT(input), LAMBDA c :
    Let1(ParseU64(c.paint_time), LAMBDA paint_time :
    Let1(ParseU64(c.area), LAMBDA area :
        IF ~c.matched THEN [panic |-> FALSE, some |-> FALSE, paint_time |-> 0, area |-> 0]
        ELSE IF ~paint_time.ok \/ ~c.has_area \/ ~area.ok
        THEN [panic |-> TRUE, some |-> FALSE, paint_time |-> 0, area |-> 0]
        ELSE [panic |-> FALSE, some |-> TRUE,
              paint_time |-> area.value, area |-> paint_time.value])))

\* parse_lcp_trace: None when the pattern does not match; the expect()s on
\* the area group and on the two parses panic.
parse_lcp_trace(input) ==
    Let1(CROSS_PROCESS_INSTANT(input), LAMBDA c :
    Let1(ParseU64(c.paint_time), LAMBDA paint_time :
    Let1(ParseU64(c.area), LAMBDA area :
        IF ~c.matched THEN [panic |-> FALSE, some |-> FALSE, paint_time |-> 0, area |-> 0]
        ELSE IF ~paint_time.ok \/ ~c.has_area \/ ~area.ok
        THEN [panic |-> TRUE, some |-> FALSE, paint_time |-> 0, area |-> 0]
        ELSE [panic |-> FALSE, some |-> TRUE,
              paint_time |-> paint_time.value, area |-> area.value])))

parse_fcp_trace(input) ==
    Let1(CROSS_PROCESS_INSTANT(input), LAMBDA c :
    Let1(ParseU64(c.paint_time), LAMBDA paint_time :
        IF ~c.matched THEN [panic |-> FALSE, some |-> FALSE, paint_time |-> 0]
        ELSE IF ~paint_time.ok THEN [panic |-> TRUE, some |-> FALSE, paint_time |-> 0]
        ELSE [panic |-> FALSE, some |-> TRUE, paint_time |-> paint_time.value]))

\* filter_lcp_or_fcp: a key=value list that does not parse is an expect() on
\* None.
filter_lcp_or_fcp(self, url, groups, trace) ==
    IF groups.filter_name = SERVO_LCP_STRING
    THEN Let1(parse_lcp_trace(groups.key_values), LAMBDA lcp_values :
             IF lcp_values.panic \/ ~lcp_values.some THEN Panicked
             ELSE Some(<<MkPoint(url \o <<"/">> \o self.name \o <<"/paint_time">>, self,
                                 "LargestContentfulPaint", lcp_values.paint_time, trace),
                         MkPoint(url \o <<"/">> \o self.name \o <<"/area">>, self,
                                 "LargestContentfulPaint", lcp_values.area, trace)>>))
    ELSE IF groups.filter_name = SERVO_FCP_STRING
    THEN Let1(parse_fcp_trace(groups.key_values), LAMBDA fcp_value :
             IF fcp_value.panic \/ ~fcp_value.some THEN Panicked
             ELSE Some(<<MkPoint(url \o <<"/">> \o self.name \o <<"/paint_time">>, self,
                                 "LargestContentfulPaint", fcp_value.paint_time, trace)>>))
    ELSE None

\* The outcome of a handler with the pattern that chose the handler.
Classified(class, outcome) ==
    Let1(outcome, LAMBDA r : [panic |-> r.panic, points |-> r.points, class |-> class])

\* filter_trace_to_option_point trying MEMORY_REPORT_REGEX before the url and
\* the smaps pattern.
filter_trace_to_option_point_report_first(self, trace, url) ==
    Let1(trace.function, LAMBDA fn :
    Let1(LCP_REGEX(fn), LAMBDA lcp :
    Let1(FCP_REGEX(fn), LAMBDA fcp :
    Let1(MEMORY_URL_REPORT_REGEX(fn), LAMBDA memory_url :
    Let1(SMAPS_REGEX(fn), LAMBDA smaps :
    Let1(MEMORY_REPORT_REGEX(fn), LAMBDA memory :
    Let1(TESTCASE_REGEX(fn), LAMBDA testcase :
        IF lcp.matched
        THEN Classified("LargestContentfulPaint", filter_lcp_or_fcp(self, url, lcp, trace))
        ELSE IF fcp.matched
        THEN Classified("FirstContentfulPaint", filter_lcp_or_fcp(self, url, fcp, trace))
        ELSE IF memory.matched
        THEN Classified("MemoryReport", filter_memory(self, url, memory, trace))
        ELSE IF memory_url.matched
        THEN Classified("MemoryUrl", filter_memory_url(self, url, memory_url, trace))
        ELSE IF smaps.matched
        THEN Classified("Smaps", filter_smaps(self, url, smaps, trace))
        ELSE IF testcase.matched
        THEN Classified("Testcase", filter_testcase(self, url, testcase, trace))
        ELSE Classified("None", None))))))))

\* filter_trace_to_option_point: the patterns are tried in the order of the
\* if-else chain, and the handler of the first pattern that matches decides.
filter_trace_to_option_point(self, trace, url) ==
    Let1(trace.function, LAMBDA fn :
    Let1(LCP_REGEX(fn), LAMBDA lcp :
    Let1(FCP_REGEX(fn), LAMBDA fcp :
    Let1(MEMORY_URL_REPORT_REGEX(fn), LAMBDA memory_url :
    Let1(SMAPS_REGEX(fn), LAMBDA smaps :
    Let1(MEMORY_REPORT_REGEX(fn), LAMBDA memory :
    Let1(TESTCASE_REGEX(fn), LAMBDA testcase :
        IF lcp.matched
        THEN Classified("LargestContentfulPaint", filter_lcp_or_fcp(self, url, lcp, trace))
        ELSE IF fcp.matched
        THEN Classified("FirstContentfulPaint", filter_lcp_or_fcp(self, url, fcp, trace))
        ELSE IF memory_url.matched
        THEN Classified("MemoryUrl", filter_memory_url(self, url, memory_url, trace))
        ELSE IF smaps.matched
        THEN Classified("Smaps", filter_smaps(self, url, smaps, trace))
        ELSE IF memory.matched
        THEN Classified("MemoryReport", filter_memory(self, url, memory, trace))
        ELSE IF testcase.matched
        THEN Classified("Testcase", filter_testcase(self, url, testcase, trace))
        ELSE Classified("None", None))))))))

\* The three filter() calls of pointfilter_to_point without the one on the
\* marker.
Prefiltered_any_marker(self, ts) ==
    SelectSeq(ts, LAMBDA t :
        /\ \/ Contains(t.function, <<SERVO_MEMORY_PROFILING_STRING>>)
           \/ Contains(t.function, <<TESTCASE_PROFILING_STRING>>)
           \/ Contains(t.function, <<SERVO_LCP_STRING>>)
           \/ Contains(t.function, <<SERVO_FCP_STRING>>)
        /\ Contains(t.function, self.match_str))

\* The three filter() calls at the head of pointfilter_to_point.
Prefiltered(self, ts) ==
    SelectSeq(ts, LAMBDA t :
        /\ t.trace_marker = "Dot" \/ t.trace_marker = "StartSync"
        /\ \/ Contains(t.function, <<SERVO_MEMORY_PROFILING_STRING>>)
           \/ Contains(t.function, <<TESTCASE_PROFILING_STRING>>)
           \/ Contains(t.function, <<SERVO_LCP_STRING>>)
           \/ Contains(t.function, <<SERVO_FCP_STRING>>)
        /\ Contains(t.function, self.match_str))

\* filter_map(filter_trace_to_option_point).flatten().collect() over the
\* records ts: the records are handled in order and a panic unwinds.  calls
\* keeps, for every record handled, the pattern that chose its handler and
\* what the handler returned.
RECURSIVE CollectPoints(_, _, _, _, _)
CollectPoints(self, ts, url, acc, calls) ==
    IF ts = <<>> THEN [panic |-> FALSE, points |-> acc, calls |-> calls]
    ELSE Let1(Head(ts), LAMBDA t :
         Let1(filter_trace_to_option_point(self, t, url), LAMBDA r :
         Let1(Append(calls, [trace |-> t, class |-> r.class, panic |-> r.panic,
                             points |-> r.points]), LAMBDA cs :
             IF r.panic THEN [panic |-> TRUE, points |-> <<>>, calls |-> cs]
             ELSE CollectPoints(self, Tail(ts), url, acc \o r.points, cs))))

\* The traces of the points, as the error! of remove_duplicates lists them.
TracesOf(ps) ==
    LET some == SelectSeq(ps, LAMBDA p : p.trace # <<>>)
    IN  [k \in 1..Len(some) |-> some[k].trace[1]]

OfKind(ps, kind) == SelectSeq(ps, LAMBDA p : p.point_type.kind = kind)

\* One if block of remove_duplicates on the points and the log so far.
RemoveKind(self, r, kind) ==
    Let1(r, LAMBDA a :
        IF Len(OfKind(a.points, kind)) > 1
        THEN [points |-> SelectSeq(a.points, LAMBDA p : p.point_type.kind # kind),
              logged |-> Append(a.logged, [filter |-> self, traces |-> TracesOf(a.points)])]
        ELSE a)

\* remove_duplicates without the block for MemoryReport.
remove_duplicates_testcase_only(self, ps) ==
    RemoveKind(self, [points |-> ps, logged |-> <<>>], "Testcase")

remove_duplicates(self, ps) ==
    RemoveKind(self, RemoveKind(self, [points |-> ps, logged |-> <<>>], "Testcase"),
               "MemoryReport")

\* The sum taken as the value of the first point.
SumValues_first(vals) == Head(vals).point_type.value

RECURSIVE SumValues(_)
SumValues(vals) ==
    IF vals = <<>> THEN 0 ELSE Head(vals).point_type.value + SumValues(Tail(vals))

\* The maximum taken as the least value.
MaxValue_least(vals) ==
    Least({vals[k].point_type.value : k \in DOMAIN vals})

MaxValue(vals) ==
    Greatest({vals[k].point_type.value : k \in DOMAIN vals})

\* The closure of the map over the groups of into_group_map_by.
GroupPoint(self, name, group) ==
    Let1(group, LAMBDA vals :
        IF Len(vals) = 1 THEN vals[1]
        ELSE [name |-> name,
              no_unit_conversion |-> vals[1].no_unit_conversion,
              trace |-> <<>>,
              point_type |-> IF self.point_filter_type = "Largest"
                             THEN [kind |-> "LargestContentfulPaint",
                                   value |-> MaxValue(vals)]
                             ELSE [kind |-> "Combined", value |-> SumValues(vals)]])

\* The orders in which the HashMap of into_group_map_by can hand out its
\* keys: any order of the names of the points.  The Default policy does not
\* build the map.
HashOrders(self, ps) ==
    IF self.point_filter_type = "Default" THEN {<<>>}
    ELSE Let1({ps[k].name : k \in DOMAIN ps}, LAMBDA names :
             {o \in [1..Cardinality(names) -> names] :
                 \A i, j \in DOMAIN o : i # j => o[i] # o[j]})

\* pointfilter_to_point(self, traces, run_config); order is the order in
\* which the HashMap hands out the names.
pointfilter_to_point(self, ts, url, order) ==
    Let1(CollectPoints(self, Prefiltered(self, ts), url, <<>>, <<>>), LAMBDA c :
        IF c.panic
        THEN [panic |-> TRUE, points |-> <<>>, logged |-> <<>>, calls |-> c.calls]
        ELSE IF self.point_filter_type # "Default"
        THEN [panic |-> FALSE,
              points |-> [k \in 1..Len(order) |->
                            GroupPoint(self, order[k],
                                       SelectSeq(c.points, LAMBDA p : p.name = order[k]))],
              logged |-> <<>>,
              calls |-> c.calls]
        ELSE Let1(remove_duplicates(self, c.points), LAMBDA r :
                 [panic |-> FALSE, points |-> r.points, logged |-> r.logged,
                  calls |-> c.calls]))

----------------------------------------------------------------------------
(* The point extraction of one point filter over small captures            *)

MaxPoints == 2

\* The payloads of the records: the example payloads of point_filters.rs cut
\* down to a few tokens, and payloads next to them.
MemoryPayload == <<"servo_memory_profiling", ":", "resident", " ", "2", "7">>

MemoryPipePayload == <<"servo_memory_profiling", ":", "resident", "|", "9", "|", "k">>

MemoryBigPayload == <<"servo_memory_profiling", ":", "resident", " ">> \o TooBig

UrlPayload ==
    <<"servo_memory_profiling", ":", "url", "(", "u", ")", "/", "j", "/", "h", " ", "5">>

OtherUrlPayload ==
    <<"servo_memory_profiling", ":", "url", "(", "v", ")", "/", "j", "/", "h", " ", "6">>

SmapsPayload ==
    <<"servo_memory_profiling", ":", "resident", "-according-to-smaps", "/", "o", " ", "8">>

TestcasePayload == <<"TESTCASE_PROFILING", ":", " ", "t", " ", "4">>

LcpPayload ==
    <<"LargestContentfulPaint", "|", "|", "paint_time=", "CrossProcessInstant", " ",
      "{", " ", "value:", " ", "9", " ", "}", ",", "area=", "4", ",", "x">>

FcpPayload ==
    <<"FirstContentfulPaint", "|", "|", "epoch=Epoch", "(", "1", ")", ",", "paint_time=",
      "CrossProcessInstant", " ", "{", " ", "value:", " ", "3", " ", "}", ",", "x">>

\* The url holds the target url and more; the subpath has one segment.
SubUrlPayload ==
    <<"servo_memory_profiling", ":", "url", "(", "x", "u", ")", "/", "j", " ", "7">>

\* paint_time with a bare integer.
BarePaintPayload ==
    <<"LargestContentfulPaint", "|", "|", "paint_time=", "9", ",", "area=", "4">>

\* A LargestContentfulPaint record without the area field.
NoAreaPayload ==
    <<"LargestContentfulPaint", "|", "|", "paint_time=", "CrossProcessInstant", " ",
      "{", " ", "value:", " ", "9", " ", "}", ",", "x">>

\* The tag is not at the start: no pattern matches.
ShiftedPayload == <<"x", "servo_memory_profiling", ":", "resident", " ", "3">>

\* No tag at all.
PlainPayload == <<"resident", " ", "3">>

SamplePayloads ==
    {MemoryPayload, MemoryPipePayload, MemoryBigPayload, UrlPayload, OtherUrlPayload,
     SmapsPayload, TestcasePayload, LcpPayload, FcpPayload, ShiftedPayload,
     PlainPayload, SubUrlPayload, BarePaintPayload, NoAreaPayload}

SamplePointTraces ==
    {MkTrace(1, 0, "Dot", p) : p \in SamplePayloads}
      \cup {MkTrace(1, 0, "StartSync", p) : p \in {MemoryPayload, TestcasePayload}}
      \cup {MkTrace(1, 0, "EndSync", p) : p \in {MemoryPayload, UrlPayload}}

MkPointFilter(match_str, type) ==
    [name |-> <<"M">>, match_str |-> match_str, no_unit_conversion |-> FALSE,
     point_filter_type |-> type]

SamplePointFilters ==
    {MkPointFilter(m, "Default") :
        m \in {<<"resident">>, <<"j">>, SMAPS_KEY, <<"t">>, <<"servo_memory_profiling">>,
               <<"LargestContentfulPaint">>, <<"FirstContentfulPaint">>, <<"o">>, <<"4">>,
               <<"paint_time=">>}}
      \cup {MkPointFilter(m, type) :
              m \in {<<"servo_memory_profiling">>, <<"LargestContentfulPaint">>},
              type \in {"Combined", "Largest"}}

InitPoint ==
    /\ build = "release"
    /\ pc = "point"
    /\ traces \in SeqsOf(SamplePointTraces, 0, MaxPoints)
    /\ filters = <<>>
    /\ diffs = NoDiffs
    /\ file = NoFile
    /\ parsed = NotRead
    /\ reparsed = <<>>
    /\ point_filter \in SamplePointFilters
    /\ run_url = <<"u">>
    /\ points = NoPoints
    /\ values = <<>>
    /\ shuffled = <<>>
    /\ stats = <<>>
    /\ results = <<>>
    /\ bench = <<>>
    /\ run_file = <<>>
    /\ run_configs = <<>>
    /\ run_config = <<>>
    /\ trial = 0
    /\ new_points = <<>>
    /\ hdc = <<>>
    /\ proxy = <<>>
    /\ exec_result = ""

\* One point filter of the configuration applied to the trial's records.
PointfilterToPoint ==
    /\ pc = "point"
    /\ \E order \in HashOrders(point_filter,
                               CollectPoints(point_filter, Prefiltered(point_filter, traces),
                                             run_url, <<>>, <<>>).points) :
          points' = pointfilter_to_point(point_filter, traces, run_url, order)
    /\ pc' = "pointed"
    /\ UNCHANGED <<build, traces, filters, diffs, file, parsed, reparsed,
                   point_filter, run_url,
                   values,
                   shuffled,
                   stats,
                   results,
                   bench,
                   run_file,
                   run_configs,
                   run_config,
                   trial,
                   new_points,
                   hdc,
                   proxy,
                   exec_result>>

NextPoint == PointfilterToPoint

SpecPoint == InitPoint /\ [][NextPoint]_vars

----------------------------------------------------------------------------
(* Properties of the point extraction                                      *)

PointTags ==
    {"servo_memory_profiling", "TESTCASE_PROFILING", "LargestContentfulPaint",
     "FirstContentfulPaint"}

\* The three conditions under which a record is considered.
Considered(t) ==
    /\ t.trace_marker \in {"Dot", "StartSync"}
    /\ \E tag \in PointTags : Contains(t.function, <<tag>>)
    /\ Contains(t.function, point_filter.match_str)

\* C9: a record is considered only if its marker is Dot or StartSync, its
\* payload contains one of the four tags and its payload contains the match
\* key; a record that fails one of the three contributes to no output point:
\* every point that names a record names a considered one, and the outcome
\* (points, log, panic) is the outcome on the considered records alone.
C9_OnlyConsideredRecordsContribute ==
    pc = "pointed" =>
        /\ \A k \in DOMAIN points.points :
              \A n \in DOMAIN points.points[k].trace :
                  Considered(points.points[k].trace[n])
        /\ \A k \in DOMAIN points.calls : Considered(points.calls[k].trace)
        /\ \E order \in HashOrders(point_filter, points.points) :
              points = pointfilter_to_point(point_filter, SelectSeq(traces, Considered),
                                            run_url, order)

\* A record with marker EndSync stands next to a Dot record with the same
\* payload, and the Dot record gave a point.
C9_Witness ==
    /\ pc = "pointed"
    /\ \E i, j \in DOMAIN traces :
          /\ traces[i].trace_marker = "EndSync"
          /\ traces[j].trace_marker = "Dot"
          /\ traces[i].function = traces[j].function
          /\ \E k \in DOMAIN points.points : points.points[k].trace = <<traces[j]>>

\* The first pattern that matches the payload, in the order MemoryUrl, Smaps,
\* MemoryReport, Testcase, LargestContentfulPaint / FirstContentfulPaint.
FirstMatch(fn) ==
    IF MEMORY_URL_REPORT_REGEX(fn).matched THEN "MemoryUrl"
    ELSE IF SMAPS_REGEX(fn).matched THEN "Smaps"
    ELSE IF MEMORY_REPORT_REGEX(fn).matched THEN "MemoryReport"
    ELSE IF TESTCASE_REGEX(fn).matched THEN "Testcase"
    ELSE IF LCP_REGEX(fn).matched THEN "LargestContentfulPaint"
    ELSE IF FCP_REGEX(fn).matched THEN "FirstContentfulPaint"
    ELSE "None"

\* The handler of the first matching pattern turns the record down: a url
\* report for another origin, a smaps report for another key, a test case
\* whose name does not contain the match key.
Rejected(fn) ==
    \/ /\ FirstMatch(fn) = "MemoryUrl"
       /\ ~Contains(MEMORY_URL_REPORT_REGEX(fn).url, run_url)
    \/ /\ FirstMatch(fn) = "Smaps"
       /\ SMAPS_REGEX(fn).key # point_filter.match_str
    \/ /\ FirstMatch(fn) = "Testcase"
       /\ ~Contains(TESTCASE_REGEX(fn).case_name, point_filter.match_str)

\* C10: every considered record is classified by the first pattern that
\* matches its payload in the order MemoryUrl, Smaps, MemoryReport, Testcase,
\* LargestContentfulPaint / FirstContentfulPaint, and a record that the
\* handler of that pattern turns down gives no point: no later pattern
\* classifies it again.
C10_FirstMatchWins ==
    pc = "pointed" =>
        \A k \in DOMAIN points.calls :
            /\ points.calls[k].class = FirstMatch(points.calls[k].trace.function)
            /\ Rejected(points.calls[k].trace.function) =>
                  /\ points.calls[k].points = <<>>
                  /\ \A n \in DOMAIN points.points :
                        points.points[n].trace # <<points.calls[k].trace>>

\* A url report for another origin and a smaps report for another key were
\* handled, both match the general report pattern too, and the same filter
\* gave a point for another record.
C10_Witness ==
    /\ pc = "pointed"
    /\ ~points.panic
    /\ points.points # <<>>
    /\ \E k \in DOMAIN points.calls :
          /\ points.calls[k].class \in {"MemoryUrl", "Smaps"}
          /\ Rejected(points.calls[k].trace.function)
          /\ MEMORY_REPORT_REGEX(points.calls[k].trace.function).matched

\* The records the filter handled whose payload has the form
\* profiling:url(<url>)/<subpath> <value> with a value that fits 64 bits.
UrlReportCalls ==
    {k \in DOMAIN points.calls :
        /\ MEMORY_URL_REPORT_REGEX(points.calls[k].trace.function).matched
        /\ ParseU64(MEMORY_URL_REPORT_REGEX(points.calls[k].trace.function).value).ok}

\* C11: a url report gives a MemoryUrl point if and only if its <url>
\* contains the target url; a report whose url does not contain it gives no
\* point under any name.
C11_UrlReportAcceptedIffTargetUrl ==
    pc = "pointed" =>
        \A k \in UrlReportCalls :
            /\ (\E n \in DOMAIN points.calls[k].points :
                    points.calls[k].points[n].point_type.kind = "MemoryUrl")
                  <=> Contains(MEMORY_URL_REPORT_REGEX(points.calls[k].trace.function).url,
                               run_url)
            /\ ~Contains(MEMORY_URL_REPORT_REGEX(points.calls[k].trace.function).url, run_url)
                  => /\ points.calls[k].points = <<>>
                     /\ \A n \in DOMAIN points.points :
                           points.points[n].trace # <<points.calls[k].trace>>

\* One run handled a report whose url holds the target url and more, which
\* gave a point, and a report for another url, which gave none.
C11_Witness ==
    /\ pc = "pointed"
    /\ \E k, m \in UrlReportCalls :
          /\ MEMORY_URL_REPORT_REGEX(points.calls[k].trace.function).url # run_url
          /\ points.calls[k].points # <<>>
          /\ \E n \in DOMAIN points.points : points.points[n].trace = <<points.calls[k].trace>>
          /\ points.calls[m].points = <<>>

\* The segments of a subpath after its first '/', each with the '/' before
\* it; nothing for a subpath of one segment.
SegmentsAfterFirst(subpath) ==
    IF \A k \in DOMAIN subpath : subpath[k] # "/" THEN <<>>
    ELSE LET first == CHOOSE k \in DOMAIN subpath :
                          /\ subpath[k] = "/"
                          /\ \A m \in 1..(k - 1) : subpath[m] # "/"
         IN  IF first = Len(subpath) THEN <<>>
             ELSE SubSeq(subpath, first, Len(subpath))

\* C12 as stated: the name of a MemoryUrl point is the spec name plus the
\* subpath segments after the first '/' of the subpath.
C12_NameIsSpecNamePlusSegments ==
    pc = "pointed" =>
        \A k \in UrlReportCalls :
            \A n \in DOMAIN points.calls[k].points :
                points.calls[k].points[n].name =
                    point_filter.name
                      \o SegmentsAfterFirst(
                            MEMORY_URL_REPORT_REGEX(points.calls[k].trace.function).subsystem_path)

\* C12, amended: the name of a MemoryUrl point is the target url, a '/', the
\* spec name and then the subpath segments after the first '/' of the
\* subpath; a subpath of one segment adds nothing.
C12_NameIsUrlSpecNamePlusSegments ==
    pc = "pointed" =>
        \A k \in UrlReportCalls :
            \A n \in DOMAIN points.calls[k].points :
                points.calls[k].points[n].name =
                    run_url \o <<"/">> \o point_filter.name
                      \o SegmentsAfterFirst(
                            MEMORY_URL_REPORT_REGEX(points.calls[k].trace.function).subsystem_path)

\* One run gave a MemoryUrl point for a subpath of two segments and one for
\* a subpath of one segment.
C12_Witness ==
    /\ pc = "pointed"
    /\ \E k, m \in UrlReportCalls :
          /\ points.calls[k].points # <<>>
          /\ points.calls[m].points # <<>>
          /\ SegmentsAfterFirst(
                MEMORY_URL_REPORT_REGEX(points.calls[k].trace.function).subsystem_path) # <<>>
          /\ SegmentsAfterFirst(
                MEMORY_URL_REPORT_REGEX(points.calls[m].trace.function).subsystem_path) = <<>>
          /\ Len(MEMORY_URL_REPORT_REGEX(points.calls[m].trace.function).subsystem_path) > 0

\* The records the filter handled whose payload has the form
\* profiling:resident-according-to-smaps/<tag> <value> with a value that
\* fits 64 bits.
SmapsCalls ==
    {k \in DOMAIN points.calls :
        /\ points.calls[k].class = "Smaps"
        /\ ParseU64(SMAPS_REGEX(points.calls[k].trace.function).value).ok}

GivesSmapsPoint(k) ==
    \E n \in DOMAIN points.calls[k].points :
        points.calls[k].points[n].point_type.kind = "Smaps"

\* C13 as stated: a smaps report gives a Smaps point if and only if its
\* <tag> is equal to the match key.
C13_SmapsAcceptedIffTagIsKey ==
    pc = "pointed" =>
        \A k \in SmapsCalls :
            GivesSmapsPoint(k)
              <=> SMAPS_REGEX(points.calls[k].trace.function).fn_name = point_filter.match_str

\* C13, amended: a smaps report gives a Smaps point if and only if the match
\* key is equal to resident-according-to-smaps; the <tag> is not compared.
C13_SmapsAcceptedIffKeyIsSmapsKey ==
    pc = "pointed" =>
        \A k \in SmapsCalls :
            GivesSmapsPoint(k)
              <=> point_filter.match_str = <<"resident", "-according-to-smaps">>

\* A smaps report gave a Smaps point although its tag is not the match key.
C13_Witness ==
    /\ pc = "pointed"
    /\ \E k \in SmapsCalls :
          /\ GivesSmapsPoint(k)
          /\ SMAPS_REGEX(points.calls[k].trace.function).fn_name # point_filter.match_str
          /\ \E n \in DOMAIN points.points : points.points[n].trace = <<points.calls[k].trace>>

\* The records the filter handled whose payload has the form
\* TESTCASE_PROFILING: <case_name> <value> with a value that fits 64 bits.
TestcaseCalls ==
    {k \in DOMAIN points.calls :
        /\ points.calls[k].class = "Testcase"
        /\ ParseU64(TESTCASE_REGEX(points.calls[k].trace.function).value).ok}

\* C14: a test-case record gives a Testcase point with the value of the
\* record if and only if its <case_name> contains the match key; a match key
\* that is in the payload outside <case_name> only gives no point.
C14_TestcaseAcceptedIffCaseNameHasKey ==
    pc = "pointed" =>
        \A k \in TestcaseCalls :
            IF Contains(TESTCASE_REGEX(points.calls[k].trace.function).case_name,
                        point_filter.match_str)
            THEN /\ Len(points.calls[k].points) = 1
                 /\ points.calls[k].points[1].point_type =
                       [kind |-> "Testcase",
                        value |-> ParseU64(
                            TESTCASE_REGEX(points.calls[k].trace.function).value).value]
                 /\ points.calls[k].points[1].trace = <<points.calls[k].trace>>
            ELSE /\ points.calls[k].points = <<>>
                 /\ \A n \in DOMAIN points.points :
                       points.points[n].trace # <<points.calls[k].trace>>

\* A test-case record was handled whose match key stands in the digits of
\* the value and not in the case name, and it gave no point.
C14_Witness ==
    /\ pc = "pointed"
    /\ \E k \in TestcaseCalls :
          /\ Contains(TESTCASE_REGEX(points.calls[k].trace.function).value,
                      point_filter.match_str)
          /\ ~Contains(TESTCASE_REGEX(points.calls[k].trace.function).case_name,
                       point_filter.match_str)
          /\ points.calls[k].points = <<>>

\* The integer written after the first token key of a payload, blanks
\* between the two left out; 0 - 1 when there is none.
IntegerAfter(fn, key) ==
    IF \A k \in DOMAIN fn : fn[k] # key THEN 0 - 1
    ELSE LET at == CHOOSE k \in DOMAIN fn : fn[k] = key /\ \A m \in 1..(k - 1) : fn[m] # key
             from == CHOOSE k \in (at + 1)..(Len(fn) + 1) :
                         /\ At(fn, k) # " "
                         /\ \A m \in (at + 1)..(k - 1) : fn[m] = " "
             to == CHOOSE k \in from..(Len(fn) + 1) :
                         /\ At(fn, k) \notin Digits
                         /\ \A m \in from..(k - 1) : fn[m] \in Digits
         IN  IF to = from THEN 0 - 1 ELSE DecimalValue(SubSeq(fn, from, to - 1), 0)

\* The handled records of a paint pattern that were accepted.
AcceptedPaintCalls(class) ==
    {k \in DOMAIN points.calls :
        points.calls[k].class = class /\ ~points.calls[k].panic}

PaintPoint(suffix, value, trace) ==
    [name |-> run_url \o <<"/">> \o point_filter.name \o <<suffix>>,
     no_unit_conversion |-> point_filter.no_unit_conversion,
     point_type |-> [kind |-> "LargestContentfulPaint", value |-> value],
     trace |-> <<trace>>]

\* C15: an accepted LargestContentfulPaint record gives exactly two points,
\* <name>/paint_time with the integer of the wrapped instant and <name>/area
\* with the integer after area=; an accepted FirstContentfulPaint record
\* gives exactly one point, <name>/paint_time with the integer of its
\* wrapped instant, also behind an epoch=Epoch(k), field.
C15_PaintPoints ==
    pc = "pointed" =>
        /\ \A k \in AcceptedPaintCalls("LargestContentfulPaint") :
              points.calls[k].points =
                  <<PaintPoint("/paint_time",
                               IntegerAfter(points.calls[k].trace.function, "value:"),
                               points.calls[k].trace),
                    PaintPoint("/area",
                               IntegerAfter(points.calls[k].trace.function, "area="),
                               points.calls[k].trace)>>
        /\ \A k \in AcceptedPaintCalls("FirstContentfulPaint") :
              points.calls[k].points =
                  <<PaintPoint("/paint_time",
                               IntegerAfter(points.calls[k].trace.function, "value:"),
                               points.calls[k].trace)>>

\* One run accepted a LargestContentfulPaint record and a
\* FirstContentfulPaint record whose list starts with the epoch field, and
\* the output holds the three points.
C15_Witness ==
    /\ pc = "pointed"
    /\ Len(points.points) = 3
    /\ AcceptedPaintCalls("LargestContentfulPaint") # {}
    /\ \E k \in AcceptedPaintCalls("FirstContentfulPaint") :
          Contains(points.calls[k].trace.function, <<"epoch=Epoch">>)

\* The handled paint records whose payload has all the fields of its kind:
\* paint_time as a bare integer or as a wrapped instant, and area for a
\* LargestContentfulPaint record.
PaintTimeOf(fn) ==
    IF IntegerAfter(fn, "paint_time=") >= 0
    THEN IntegerAfter(fn, "paint_time=")
    ELSE IntegerAfter(fn, "value:")

CompletePaintCalls ==
    {k \in DOMAIN points.calls :
        /\ points.calls[k].class \in {"LargestContentfulPaint", "FirstContentfulPaint"}
        /\ PaintTimeOf(points.calls[k].trace.function) >= 0
        /\ points.calls[k].class = "LargestContentfulPaint"
              => IntegerAfter(points.calls[k].trace.function, "area=") >= 0}

\* C16: paint_time=N and paint_time=CrossProcessInstant { value: N } both
\* give a paint_time point with the value N.
C16_BareOrWrappedPaintTime ==
    pc = "pointed" =>
        \A k \in CompletePaintCalls :
            /\ ~points.calls[k].panic
            /\ points.calls[k].points # <<>>
            /\ points.calls[k].points[1].point_type.value =
                  PaintTimeOf(points.calls[k].trace.function)

\* C17: a paint record with a malformed key=value list, or a record with a
\* value that does not parse, fails alone: it gives no point, and the run
\* goes on to handle every considered record and to return its points.
C17_MalformedRecordFailsAlone ==
    pc = "pointed" =>
        /\ \A k \in DOMAIN points.calls :
              points.calls[k].panic => points.calls[k].points = <<>>
        /\ ~points.panic
        /\ Len(points.calls) = Len(SelectSeq(traces, Considered))

\* The points of the handled records, in the order of the records.
RECURSIVE PointsOfCalls(_)
PointsOfCalls(calls) ==
    IF calls = <<>> THEN <<>> ELSE Head(calls).points \o PointsOfCalls(Tail(calls))

\* The kinds, of Testcase and MemoryReport, of which the handled records
\* gave more than one point.
AmbiguousKinds ==
    {kind \in {"Testcase", "MemoryReport"} :
        Cardinality({n \in DOMAIN PointsOfCalls(points.calls) :
                        PointsOfCalls(points.calls)[n].point_type.kind = kind}) > 1}

\* C18: under the Default policy every point of a kind, of Testcase and
\* MemoryReport, that the filter gave more than once is dropped, with one
\* logged error per such kind that names the filter and the records of the
\* dropped points; all other points are kept as they are.
C18_DefaultDropsAmbiguousKinds ==
    (pc = "pointed" /\ point_filter.point_filter_type = "Default" /\ ~points.panic) =>
        /\ points.points =
              SelectSeq(PointsOfCalls(points.calls),
                        LAMBDA p : p.point_type.kind \notin AmbiguousKinds)
        /\ Len(points.logged) = Cardinality(AmbiguousKinds)
        /\ \A kind \in AmbiguousKinds :
              \E e \in DOMAIN points.logged :
                  /\ points.logged[e].filter = point_filter
                  /\ \A n \in DOMAIN PointsOfCalls(points.calls) :
                        PointsOfCalls(points.calls)[n].point_type.kind = kind =>
                            \E t \in DOMAIN points.logged[e].traces :
                                <<points.logged[e].traces[t]>> =
                                    PointsOfCalls(points.calls)[n].trace

\* Two records gave a MemoryReport point each under the Default policy: the
\* output holds no point and the log one error.
C18_Witness ==
    /\ pc = "pointed"
    /\ point_filter.point_filter_type = "Default"
    /\ ~points.panic
    /\ AmbiguousKinds = {"MemoryReport"}
    /\ points.points = <<>>
    /\ Len(points.logged) = 1

\* The points the handled records gave under a name, in their order.
Named(name) == SelectSeq(PointsOfCalls(points.calls), LAMBDA p : p.name = name)

ExtractedNames ==
    {PointsOfCalls(points.calls)[n].name : n \in DOMAIN PointsOfCalls(points.calls)}

RECURSIVE Total(_)
Total(ps) == IF ps = <<>> THEN 0 ELSE ps[1].point_type.value + Total(Tail(ps))

\* The output holds exactly one point for every name the records gave a
\* point under, and no other point.
OnePointPerName ==
    /\ Len(points.points) = Cardinality(ExtractedNames)
    /\ {points.points[n].name : n \in DOMAIN points.points} = ExtractedNames

\* C19: under the Combined policy the output holds exactly one point per
\* name; the points of a name that several points share are replaced by one
\* point of kind Combined whose value is the sum of their values, and a
\* point that has its name alone is passed on.
C19_CombinedSumsPerName ==
    (pc = "pointed" /\ point_filter.point_filter_type = "Combined" /\ ~points.panic) =>
        /\ OnePointPerName
        /\ \A n \in DOMAIN points.points :
              IF Len(Named(points.points[n].name)) > 1
              THEN points.points[n].point_type =
                       [kind |-> "Combined", value |-> Total(Named(points.points[n].name))]
              ELSE points.points[n] = Named(points.points[n].name)[1]

\* Two records gave points of different values under one name under the
\* Combined policy, and the output holds their sum.
C19_Witness ==
    /\ pc = "pointed"
    /\ point_filter.point_filter_type = "Combined"
    /\ ~points.panic
    /\ \E n \in DOMAIN points.points :
          /\ Len(Named(points.points[n].name)) = 2
          /\ Named(points.points[n].name)[1].point_type.value
                # Named(points.points[n].name)[2].point_type.value
          /\ points.points[n].point_type.kind = "Combined"

\* The greatest value the records gave under a name.
Greatest_value(name) ==
    CHOOSE v \in {Named(name)[k].point_type.value : k \in DOMAIN Named(name)} :
        \A k \in DOMAIN Named(name) : Named(name)[k].point_type.value <= v

\* C20 as stated: under the Largest policy the output holds exactly one
\* point per name, its value is the maximum of the values under the name and
\* its kind is LargestContentfulPaint whatever the kinds it came from.
C20_LargestIsAlwaysLcpKind ==
    (pc = "pointed" /\ point_filter.point_filter_type = "Largest" /\ ~points.panic) =>
        /\ OnePointPerName
        /\ \A n \in DOMAIN points.points :
              points.points[n].point_type =
                  [kind |-> "LargestContentfulPaint",
                   value |-> Greatest_value(points.points[n].name)]

\* C20, amended: under the Largest policy the output holds exactly one point
\* per name and its value is the maximum of the values under the name; its
\* kind is LargestContentfulPaint when several points share the name, and a
\* point that has its name alone is passed on with its own kind.
C20_LargestMaxPerName ==
    (pc = "pointed" /\ point_filter.point_filter_type = "Largest" /\ ~points.panic) =>
        /\ OnePointPerName
        /\ \A n \in DOMAIN points.points :
              /\ points.points[n].point_type.value = Greatest_value(points.points[n].name)
              /\ IF Len(Named(points.points[n].name)) > 1
                 THEN points.points[n].point_type.kind = "LargestContentfulPaint"
                 ELSE points.points[n] = Named(points.points[n].name)[1]

\* Under the Largest policy two MemoryReport points of different values
\* share a name and the output holds the greater one with the kind
\* LargestContentfulPaint.
C20_Witness ==
    /\ pc = "pointed"
    /\ point_filter.point_filter_type = "Largest"
    /\ ~points.panic
    /\ \E n \in DOMAIN points.points :
          /\ Len(Named(points.points[n].name)) = 2
          /\ Named(points.points[n].name)[1].point_type.kind = "MemoryReport"
          /\ Named(points.points[n].name)[1].point_type.value
                # Named(points.points[n].name)[2].point_type.value
          /\ points.points[n].point_type.kind = "LargestContentfulPaint"

----------------------------------------------------------------------------
(* utils.rs: the aggregator                                                *)
(*                                                                         *)
(* avg_min_max is generic over the value type.  The program uses it for    *)
(* u64 point values and for time::Duration; a value is modelled as an      *)
(* integer (a count, or a duration in nanoseconds), and both divisions     *)
(* truncate toward zero.                                                   *)

U16Max == 65535

RECURSIVE Fold(_, _, _)
Fold(Op(_, _), acc, vals) ==
    IF vals = <<>> THEN acc ELSE Fold(Op, Op(acc, Head(vals)), Tail(vals))

\* avg_min_max with the average rounded toward minus infinity.
avg_min_max_floor(vals) ==
    IF Len(vals) > U16Max THEN [panic |-> TRUE, message |-> "You have too many runs"]
    ELSE IF vals = <<>> THEN [panic |-> TRUE, message |-> "Could not find min"]
    ELSE [panic |-> FALSE,
          avg |-> Fold(LAMBDA a, b : a + b, 0, vals) \div Len(vals),
          min |-> Fold(LAMBDA a, b : IF b < a THEN b ELSE a, Head(vals), Tail(vals)),
          max |-> Fold(LAMBDA a, b : IF b >= a THEN b ELSE a, Head(vals), Tail(vals)),
          number |-> Len(vals)]

\* avg_min_max(values): the length is converted to u16, min and max are
\* taken with expect, which panics on an empty slice, and the average is the
\* sum divided by the length.
avg_min_max(vals) ==
    IF Len(vals) > U16Max THEN [panic |-> TRUE, message |-> "You have too many runs"]
    ELSE IF vals = <<>> THEN [panic |-> TRUE, message |-> "Could not find min"]
    ELSE [panic |-> FALSE,
          avg |-> TruncDiv(Fold(LAMBDA a, b : a + b, 0, vals), Len(vals)),
          min |-> Fold(LAMBDA a, b : IF b < a THEN b ELSE a, Head(vals), Tail(vals)),
          max |-> Fold(LAMBDA a, b : IF b >= a THEN b ELSE a, Head(vals), Tail(vals)),
          number |-> Len(vals)]

----------------------------------------------------------------------------
(* Bounds and sample inputs of the aggregator specification                *)

MaxValues == 3

\* Point values are unsigned; durations may be negative.
SampleValues == {0, 3, 8, 20, -7}

InitAvg ==
    /\ build = "release"
    /\ pc = "avg"
    /\ traces = <<>>
    /\ filters = <<>>
    /\ diffs = NoDiffs
    /\ file = NoFile
    /\ parsed = NotRead
    /\ reparsed = <<>>
    /\ point_filter = NoPointFilter
    /\ run_url = <<>>
    /\ points = NoPoints
    /\ values \in SeqsOf(SampleValues, 0, MaxValues)
    /\ shuffled \in {[i \in DOMAIN values |-> values[p[i]]] : p \in Permutations(DOMAIN values)}
    /\ stats = <<>>
    /\ results = <<>>
    /\ bench = <<>>
    /\ run_file = <<>>
    /\ run_configs = <<>>
    /\ run_config = <<>>
    /\ trial = 0
    /\ new_points = <<>>
    /\ hdc = <<>>
    /\ proxy = <<>>
    /\ exec_result = ""

\* The aggregator applied to a value list and to the same values in another
\* order.
AvgMinMax ==
    /\ pc = "avg"
    /\ stats' = [of_values |-> avg_min_max(values), of_shuffled |-> avg_min_max(shuffled)]
    /\ pc' = "averaged"
    /\ UNCHANGED <<build, traces, filters, diffs, file, parsed, reparsed,
                   point_filter, run_url, points, values, shuffled,
                   results,
                   bench,
                   run_file,
                   run_configs,
                   run_config,
                   trial,
                   new_points,
                   hdc,
                   proxy,
                   exec_result>>

NextAvg == AvgMinMax

SpecAvg == InitAvg /\ [][NextAvg]_vars

----------------------------------------------------------------------------
(* Properties of the aggregator (SpecAvg)                                  *)

RECURSIVE Total_of(_)
Total_of(vals) == IF vals = <<>> THEN 0 ELSE Head(vals) + Total_of(Tail(vals))

\* C21: for a non-empty list avg_min_max returns the least element, the
\* greatest element, the length and the sum divided by the length with the
\* quotient truncated; the result for a one-element list [x] is x three
\* times with count 1, and the result does not depend on the order of the
\* list.
C21_AvgMinMaxOfNonEmptyList ==
    (pc = "averaged" /\ values # <<>>) =>
        /\ ~stats.of_values.panic
        /\ \E k \in DOMAIN values : stats.of_values.min = values[k]
        /\ \A k \in DOMAIN values : stats.of_values.min <= values[k]
        /\ \E k \in DOMAIN values : stats.of_values.max = values[k]
        /\ \A k \in DOMAIN values : stats.of_values.max >= values[k]
        /\ stats.of_values.number = Len(values)
        /\ stats.of_values.avg * Len(values) + TruncRem(Total_of(values), Len(values))
             = Total_of(values)
        /\ Len(values) = 1 =>
             stats.of_values = [panic |-> FALSE, avg |-> values[1], min |-> values[1],
                                max |-> values[1], number |-> 1]
        /\ stats.of_shuffled = stats.of_values

\* A list of three values in another order than its shuffle, whose sum is
\* negative and not a multiple of three, has been aggregated.
C21_Witness ==
    /\ pc = "averaged"
    /\ Len(values) = 3
    /\ shuffled # values
    /\ Total_of(values) < 0
    /\ TruncRem(Total_of(values), 3) # 0
    /\ ~stats.of_values.panic

----------------------------------------------------------------------------
(* bencher.rs: the results as bencher measures                             *)
(*                                                                         *)
(* A HashMap is a function from its keys; a key is a token sequence.       *)

\* Option<String> of RunResults::prepend: <<>> is None, <<pre>> is Some(pre).
\* bencher_key(result, key)
bencher_key(result, key) ==
    IF result.prepend # <<>>
    THEN result.prepend[1] \o <<"/", "E2E", "/">> \o key
    ELSE <<"E2E", "/">> \o key

\* One entry of the bencher JSON: the measure name and its Latency.
Measure(name, a) ==
    [measure |-> name, value |-> a.avg, lower_value |-> a.min, upper_value |-> a.max]

\* The measure name chosen in points_iterator.
MeasureName(key, point_result) ==
    IF Contains(key, <<"LargestContentfulPaint", "/area">>) THEN "Pixels"
    ELSE IF Contains(key, <<"LargestContentfulPaint", "/paint_time">>) THEN "Nanoseconds"
    ELSE IF point_result.no_unit_conversion THEN "Data"
    ELSE "Memory"

\* filter_iterator: every entry of filter_results is aggregated.
filter_iterator(result) ==
    [key \in DOMAIN result.filter_results |-> avg_min_max(result.filter_results[key])]

\* points_iterator: every entry of point_results is aggregated.
points_iterator(result) ==
    [key \in DOMAIN result.point_results |-> avg_min_max(result.point_results[key].result)]

\* generate_results_hashmap: the two iterators are chained and collected, so
\* a point entry replaces a filter entry of the same key; a panic of the
\* aggregator unwinds the call.
generate_results_hashmap(result) ==
    Let1(filter_iterator(result), LAMBDA fs :
    Let1(points_iterator(result), LAMBDA ps :
        IF (\E k \in DOMAIN fs : fs[k].panic) \/ (\E k \in DOMAIN ps : ps[k].panic)
        THEN [panic |-> TRUE, map |-> <<>>]
        ELSE [panic |-> FALSE,
              map |-> [bk \in {bencher_key(result, k) : k \in DOMAIN fs \cup DOMAIN ps} |->
                         IF \E k \in DOMAIN ps : bencher_key(result, k) = bk
                         THEN Let1(CHOOSE k \in DOMAIN ps : bencher_key(result, k) = bk,
                                   LAMBDA k : Measure(MeasureName(k, result.point_results[k]),
                                                      ps[k]))
                         ELSE Let1(CHOOSE k \in DOMAIN fs : bencher_key(result, k) = bk,
                                   LAMBDA k : Measure("Latency", fs[k]))]]))

----------------------------------------------------------------------------
(* Bounds and sample inputs of the bencher specification                   *)

MaxKeys == 2

\* Point names as the point filters of the tests give them.
SamplePointKeys ==
    { <<"u", "/", "LargestContentfulPaint", "/paint_time">>,
      <<"u", "/", "LargestContentfulPaint", "/area">>,
      <<"u", "/", "FirstContentfulPaint", "/paint_time">>,
      <<"u", "/", "M">>,
      <<"u", "/">> }

SamplePointResults ==
    { [no_unit_conversion |-> c, result |-> r] :
          c \in BOOLEAN, r \in {<<>>, <<3>>, <<3, 8>>} }

SampleFilterResults ==
    {<<>>} \cup { [k \in {<<"f">>} |-> r] : r \in {<<>>, <<5>>, <<-7, 4>>} }

SampleRunResults ==
    { [prepend |-> pre, filter_results |-> fr, errors |-> <<>>, point_results |-> pr] :
          pre \in {<<>>, <<(<<"p">>)>>},
          fr \in SampleFilterResults,
          pr \in UNION { [ks -> SamplePointResults] :
                           ks \in {k \in SUBSET SamplePointKeys : Cardinality(k) <= MaxKeys} } }

InitBencher ==
    /\ build = "release"
    /\ pc = "bencher"
    /\ traces = <<>>
    /\ filters = <<>>
    /\ diffs = NoDiffs
    /\ file = NoFile
    /\ parsed = NotRead
    /\ reparsed = <<>>
    /\ point_filter = NoPointFilter
    /\ run_url = <<>>
    /\ points = NoPoints
    /\ values = <<>>
    /\ shuffled = <<>>
    /\ stats = <<>>
    /\ results \in SampleRunResults
    /\ bench = <<>>
    /\ run_file = <<>>
    /\ run_configs = <<>>
    /\ run_config = <<>>
    /\ trial = 0
    /\ new_points = <<>>
    /\ hdc = <<>>
    /\ proxy = <<>>
    /\ exec_result = ""

\* write_results up to the serialisation: the results are turned into the
\* bencher map.
GenerateResultsHashmap ==
    /\ pc = "bencher"
    /\ bench' = generate_results_hashmap(results)
    /\ pc' = "benched"
    /\ UNCHANGED <<build, traces, filters, diffs, file, parsed, reparsed,
                   point_filter, run_url, points, values, shuffled, stats, results,
                   run_file,
                   run_configs,
                   run_config,
                   trial,
                   new_points,
                   hdc,
                   proxy,
                   exec_result>>

NextBencher == GenerateResultsHashmap

SpecBencher == InitBencher /\ [][NextBencher]_vars

----------------------------------------------------------------------------
(* Properties of the bencher output (SpecBencher)                          *)

\* The names with at least one accumulated value.
NonEmptyFilterNames ==
    {k \in DOMAIN results.filter_results : results.filter_results[k] # <<>>}

NonEmptyPointNames ==
    {k \in DOMAIN results.point_results : results.point_results[k].result # <<>>}

\* C22: producing the output never reaches the aggregator's empty-input
\* failure: a name whose accumulated list is empty is skipped, and every
\* other name is reported.
C22_EmptyListsAreSkipped ==
    pc = "benched" =>
        /\ ~bench.panic
        /\ DOMAIN bench.map =
             {bencher_key(results, k) : k \in NonEmptyFilterNames \cup NonEmptyPointNames}

\* The key ends with the given tokens.
EndsWith(key, tail) ==
    /\ Len(key) >= Len(tail)
    /\ SubSeq(key, Len(key) - Len(tail) + 1, Len(key)) = tail

\* The unit C25 gives a point result of this key and flag.
UnitOf(key, flag) ==
    IF \/ EndsWith(key, <<"LargestContentfulPaint", "/paint_time">>)
       \/ EndsWith(key, <<"FirstContentfulPaint", "/paint_time">>)
    THEN "Nanoseconds"
    ELSE IF EndsWith(key, <<"LargestContentfulPaint", "/area">>) THEN "Pixels"
    ELSE IF flag THEN "Data"
    ELSE "Memory"

\* The key C25 gives a derived name.
KeyOf(name) ==
    IF results.prepend = <<>> THEN <<"E2E", "/">> \o name
    ELSE results.prepend[1] \o <<"/">> \o <<"E2E", "/">> \o name

\* C25: every point result is reported under the key 'E2E/' + derived name,
\* after '<prepend>/' when a prepend string is configured, and under one
\* unit: Nanoseconds for a paint_time of LargestContentfulPaint or of
\* FirstContentfulPaint, Pixels for a LargestContentfulPaint area, otherwise
\* Data when the flag says no conversion and Memory when it does not.
C25_OneUnitPerPointResult ==
    (pc = "benched" /\ ~bench.panic) =>
        \A name \in DOMAIN results.point_results :
            /\ KeyOf(name) \in DOMAIN bench.map
            /\ bench.map[KeyOf(name)].measure =
                 UnitOf(name, results.point_results[name].no_unit_conversion)

----------------------------------------------------------------------------
(* runconfig.rs: reading the run file                                      *)

\* impl From<JsonFilterDescription> for Filter
FilterFrom(value) ==
    [name |-> value.name, first |-> value.start_fn_partial, last |-> value.end_fn_partial]

\* into_run_config(args, run_config_json): the filters and the point filters
\* are converted one by one, in their order.  PointFilter::finalize is applied
\* to every point filter; the model keeps the point filter as it was read.
into_run_config(args, run_config_json) ==
    [args |-> args,
     run_args |-> run_config_json.run_args,
     filters |-> [i \in DOMAIN run_config_json.filters |->
                     FilterFrom(run_config_json.filters[i])],
     point_filters |-> run_config_json.point_filters]

\* The map over the entries collected into a Result, with an entry that names
\* no filter left out instead of being an error.
RECURSIVE CollectRunConfigs_skip_empty(_, _, _)
CollectRunConfigs_skip_empty(args, entries, acc) ==
    IF entries = <<>> THEN [ok |-> TRUE, error |-> "", configs |-> acc]
    ELSE IF Head(entries).filters = <<>> /\ Head(entries).point_filters = <<>>
    THEN CollectRunConfigs_skip_empty(args, Tail(entries), acc)
    ELSE CollectRunConfigs_skip_empty(args, Tail(entries),
                                      Append(acc, into_run_config(args, Head(entries))))

\* The map over the entries collected into a Result<Vec<RunConfig>>: the
\* first Err ends the collection and is the result.
RECURSIVE CollectRunConfigs(_, _, _)
CollectRunConfigs(args, entries, acc) ==
    IF entries = <<>> THEN [ok |-> TRUE, error |-> "", configs |-> acc]
    ELSE IF Head(entries).filters = <<>> /\ Head(entries).point_filters = <<>>
    THEN [ok |-> FALSE,
          error |-> "You did not specify a filter or pointfilter for at least one run.",
          configs |-> <<>>]
    ELSE CollectRunConfigs(args, Tail(entries),
                           Append(acc, into_run_config(args, Head(entries))))

\* read_run_file(path, args): the file is read, decoded as a list of entries
\* and every entry is checked and converted.
read_run_file(f, args) ==
    IF ~f.readable THEN [ok |-> FALSE, error |-> "io", configs |-> <<>>]
    ELSE IF ~f.decodes
    THEN [ok |-> FALSE, error |-> "Could not decode runfile", configs |-> <<>>]
    ELSE CollectRunConfigs(args, f.entries, <<>>)

----------------------------------------------------------------------------
(* Bounds and sample inputs of the run-file specification                  *)

MaxEntries == 2

SampleEntries ==
    { [run_args |-> [url |-> u], filters |-> fs, point_filters |-> ps] :
          u \in {<<"a">>, <<"b">>},
          fs \in {<<>>, <<[name |-> <<"f">>, start_fn_partial |-> <<"A">>,
                           end_fn_partial |-> <<"B">>]>>},
          ps \in {<<>>, <<MkPointFilter(<<"resident">>, "Default")>>} }

SampleRunFiles ==
    { [readable |-> FALSE, decodes |-> FALSE, entries |-> <<>>],
      [readable |-> TRUE, decodes |-> FALSE, entries |-> <<>>] }
      \cup { [readable |-> TRUE, decodes |-> TRUE, entries |-> es] :
                 es \in SeqsOf(SampleEntries, 0, MaxEntries) }

SampleArgs == { [bencher |-> b, prepend |-> <<>>] : b \in BOOLEAN }

InitRunFile ==
    /\ build = "release"
    /\ pc = "run_file"
    /\ traces = <<>>
    /\ filters = <<>>
    /\ diffs = NoDiffs
    /\ file = NoFile
    /\ parsed = NotRead
    /\ reparsed = <<>>
    /\ point_filter = NoPointFilter
    /\ run_url = <<>>
    /\ points = NoPoints
    /\ values = <<>>
    /\ shuffled = <<>>
    /\ stats = <<>>
    /\ results = <<>>
    /\ bench = <<>>
    /\ run_file \in SampleRunFiles
    /\ run_configs = <<>>
    /\ run_config = <<>>
    /\ trial = 0
    /\ new_points = <<>>
    /\ hdc = <<>>
    /\ proxy = <<>>
    /\ exec_result = ""

ReadRunFile ==
    /\ pc = "run_file"
    /\ \E args \in SampleArgs : run_configs' = read_run_file(run_file, args)
    /\ pc' = "configured"
    /\ UNCHANGED <<build, traces, filters, diffs, file, parsed, reparsed,
                   point_filter, run_url, points, values, shuffled, stats,
                   results, bench, run_file,
                   run_config,
                   trial,
                   new_points,
                   hdc,
                   proxy,
                   exec_result>>

NextRunFile == ReadRunFile

SpecRunFile == InitRunFile /\ [][NextRunFile]_vars

----------------------------------------------------------------------------
(* Properties of the run file (SpecRunFile)                                *)

\* The entry names no interval filter and no point filter.
NamesNothing(entry) == entry.filters = <<>> /\ entry.point_filters = <<>>

\* C23: for a decoded run file, read_run_file returns an error and no run
\* configuration when some entry names neither an interval filter nor a
\* point filter, and otherwise one run configuration per entry, in the order
\* of the file.
C23_EntryWithoutFiltersIsFatal ==
    (pc = "configured" /\ run_file.readable /\ run_file.decodes) =>
        IF \E i \in DOMAIN run_file.entries : NamesNothing(run_file.entries[i])
        THEN ~run_configs.ok /\ run_configs.configs = <<>>
        ELSE /\ run_configs.ok
             /\ Len(run_configs.configs) = Len(run_file.entries)
             /\ \A i \in DOMAIN run_file.entries :
                   /\ run_configs.configs[i].run_args = run_file.entries[i].run_args
                   /\ Len(run_configs.configs[i].filters) = Len(run_file.entries[i].filters)
                   /\ Len(run_configs.configs[i].point_filters)
                        = Len(run_file.entries[i].point_filters)

\* A run file of two entries, of which the first names a filter and the
\* second names nothing, has been read.
C23_Witness ==
    /\ pc = "configured"
    /\ run_file.readable /\ run_file.decodes
    /\ Len(run_file.entries) = 2
    /\ ~NamesNothing(run_file.entries[1])
    /\ NamesNothing(run_file.entries[2])
    /\ ~run_configs.ok

----------------------------------------------------------------------------
(* The trial runs of one configuration merged into RunResults              *)
(*                                                                         *)
(* run_runconfig(run_config, filter_results, filter_errors, point_results) *)
(* is called by the tests and by the run loop.  Its merge step is modelled *)
(* from the description of RunResults: successes are appended to the list  *)
(* of their name, failures are counted per name, and a point is appended   *)
(* to the entry of its name, which is created with the point's flag when   *)
(* the name is new.                                                        *)

\* A Duration as its whole nanoseconds, the value the aggregator works on.
whole_nanoseconds(d) == d.seconds * NanosPerSecond + d.nanoseconds

\* The merge of one point with the flag of the last writer.
MergePoint_last_writer(point_results, p) ==
    [n \in DOMAIN point_results \cup {p.name} |->
        IF n = p.name
        THEN [no_unit_conversion |-> p.no_unit_conversion,
              result |-> IF n \in DOMAIN point_results
                         THEN Append(point_results[n].result, p.point_type.value)
                         ELSE <<p.point_type.value>>]
        ELSE point_results[n]]

\* The merge of one point: appended to the entry of its name; the entry of a
\* new name takes the point's flag.
MergePoint(point_results, p) ==
    IF p.name \in DOMAIN point_results
    THEN [point_results EXCEPT ![p.name].result = Append(@, p.point_type.value)]
    ELSE [n \in DOMAIN point_results \cup {p.name} |->
             IF n = p.name
             THEN [no_unit_conversion |-> p.no_unit_conversion,
                   result |-> <<p.point_type.value>>]
             ELSE point_results[n]]

\* The points of the trial, filter after filter, in the order they came.
RECURSIVE Flatten(_)
Flatten(outcomes) ==
    IF outcomes = <<>> THEN <<>> ELSE Head(outcomes).points \o Flatten(Tail(outcomes))

\* The merge of the interval results of one trial: a duration is appended to
\* the list of its name, an error raises the counter of its name.
MergeDifferences(result, map) ==
    [result EXCEPT
        !.filter_results =
            [n \in DOMAIN result.filter_results \cup {k \in DOMAIN map : map[k].ok} |->
                IF n \in DOMAIN map /\ map[n].ok
                THEN (IF n \in DOMAIN result.filter_results
                      THEN result.filter_results[n] ELSE <<>>)
                         \o <<whole_nanoseconds(map[n].dur)>>
                ELSE result.filter_results[n]],
        !.errors =
            [n \in DOMAIN result.errors \cup {k \in DOMAIN map : ~map[k].ok} |->
                IF n \in DOMAIN map /\ ~map[n].ok
                THEN (IF n \in DOMAIN result.errors THEN result.errors[n] ELSE 0) + 1
                ELSE result.errors[n]]]

\* run_runconfig for one trial: the interval filters and every point filter
\* of the configuration are evaluated on the trial's records and the outcome
\* is merged.  orders[i] is the order in which the HashMap of the i-th point
\* filter hands out its names.  A panic of an evaluation ends the program.
run_runconfig(config, ts, result, orders) ==
    Let1(find_notable_differences(ts, config.filters, "release"), LAMBDA d :
    Let1([i \in DOMAIN config.point_filters |->
             pointfilter_to_point(config.point_filters[i], ts, config.run_args.url,
                                  orders[i])], LAMBDA outcomes :
        IF d.panic \/ \E i \in DOMAIN outcomes : outcomes[i].panic
        THEN [panic |-> TRUE, result |-> result, new_points |-> outcomes]
        ELSE [panic |-> FALSE,
              result |-> [MergeDifferences(result, d.map) EXCEPT
                             !.point_results =
                                 Fold(MergePoint, result.point_results, Flatten(outcomes))],
              new_points |-> outcomes]))

----------------------------------------------------------------------------
(* Bounds and sample inputs of the trial-run specification                 *)

MaxTrials == 2

\* A second LargestContentfulPaint record: painted earlier, larger area.
EarlyLcpPayload ==
    <<"LargestContentfulPaint", "|", "|", "paint_time=", "CrossProcessInstant", " ",
      "{", " ", "value:", " ", "5", " ", "}", ",", "area=", "8", ",", "x">>

\* The captures of the trials: no record, one report, a report and a test
\* case, one and two paints, and a paint without its area.
SampleCaptures ==
    { [i \in DOMAIN ps |-> MkTrace(1, 0, "Dot", ps[i])] :
          ps \in { <<>>, <<MemoryPayload>>, <<TestcasePayload>>,
                   <<MemoryPayload, TestcasePayload>>, <<LcpPayload>>,
                   <<LcpPayload, EarlyLcpPayload>>, <<NoAreaPayload>> } }

SampleRunPointFilters ==
    { [name |-> <<"A">>, match_str |-> <<"t">>, no_unit_conversion |-> TRUE,
       point_filter_type |-> "Default"],
      [name |-> <<"B">>, match_str |-> <<"t">>, no_unit_conversion |-> FALSE,
       point_filter_type |-> "Default"],
      [name |-> <<"M">>, match_str |-> <<"resident">>, no_unit_conversion |-> FALSE,
       point_filter_type |-> "Default"],
      [name |-> <<"LargestContentfulPaint">>, match_str |-> <<"LargestContentfulPaint">>,
       no_unit_conversion |-> TRUE, point_filter_type |-> "Largest"] }

SampleRunConfigs ==
    { [run_args |-> [url |-> <<"u">>],
       filters |-> <<[name |-> "f", first |-> <<"resident">>, last |-> <<"t">>]>>,
       point_filters |-> pfs] : pfs \in SeqsOf(SampleRunPointFilters, 1, 2) }

EmptyRunResults ==
    [prepend |-> <<>>, filter_results |-> <<>>, errors |-> <<>>, point_results |-> <<>>]

InitRun ==
    /\ build = "release"
    /\ pc = "run"
    /\ traces = <<>>
    /\ filters = <<>>
    /\ diffs = NoDiffs
    /\ file = NoFile
    /\ parsed = NotRead
    /\ reparsed = <<>>
    /\ point_filter = NoPointFilter
    /\ run_url = <<>>
    /\ points = NoPoints
    /\ values = <<>>
    /\ shuffled = <<>>
    /\ stats = <<>>
    /\ results = EmptyRunResults
    /\ bench = <<>>
    /\ run_file = <<>>
    /\ run_configs = <<>>
    /\ run_config \in SampleRunConfigs
    /\ trial = 0
    /\ new_points = <<>>
    /\ hdc = <<>>
    /\ proxy = <<>>
    /\ exec_result = ""

\* The orders the HashMaps of the point filters can take on these records.
OrdersOf(config, ts) ==
    Let1([i \in DOMAIN config.point_filters |->
             HashOrders(config.point_filters[i],
                        CollectPoints(config.point_filters[i],
                                      Prefiltered(config.point_filters[i], ts),
                                      config.run_args.url, <<>>, <<>>).points)], LAMBDA hs :
        {o \in [DOMAIN hs -> UNION {hs[i] : i \in DOMAIN hs}] :
            \A i \in DOMAIN hs : o[i] \in hs[i]})

\* One trial run: a capture is taken and run_runconfig merges what it gives.
RunRunconfig ==
    /\ pc = "run"
    /\ trial < MaxTrials
    /\ \E ts \in SampleCaptures :
         \E orders \in OrdersOf(run_config, ts) :
            \E r \in {run_runconfig(run_config, ts, results, orders)} :
                /\ traces' = ts
                /\ results' = r.result
                /\ new_points' = r.new_points
                /\ pc' = IF r.panic THEN "panicked" ELSE "run"
    /\ trial' = trial + 1
    /\ UNCHANGED <<build, filters, diffs, file, parsed, reparsed,
                   point_filter, run_url, points, values, shuffled, stats,
                   bench, run_file, run_configs, run_config,
                   hdc,
                   proxy,
                   exec_result>>

NextRun == RunRunconfig

SpecRun == InitRun /\ [][NextRun]_vars

----------------------------------------------------------------------------
(* Properties of the trial runs (SpecRun)                                  *)

\* The points the last trial gave under a name, over all point filters.
TrialPoints(np, name) == SelectSeq(Flatten(np), LAMBDA p : p.name = name)

ValuesOf(ps) == [k \in DOMAIN ps |-> ps[k].point_type.value]

\* C24: a trial never removes a point name, never changes the flag stored
\* with a name and only appends to its list: the values of the trial's
\* points of that name, whatever their flags; a name that is new takes the
\* flag of the first point written under it.
C24_FirstWriterWins ==
    [][ /\ \A name \in DOMAIN results.point_results :
              /\ name \in DOMAIN results'.point_results
              /\ results'.point_results[name].no_unit_conversion
                   = results.point_results[name].no_unit_conversion
              /\ Len(results'.point_results[name].result)
                   >= Len(results.point_results[name].result)
              /\ SubSeq(results'.point_results[name].result, 1,
                        Len(results.point_results[name].result))
                   = results.point_results[name].result
        /\ pc' = "run" =>
              \A name \in DOMAIN results'.point_results :
                  /\ TrialPoints(new_points', name) # <<>>
                       \/ name \in DOMAIN results.point_results
                  /\ results'.point_results[name].result
                       = (IF name \in DOMAIN results.point_results
                          THEN results.point_results[name].result ELSE <<>>)
                            \o ValuesOf(TrialPoints(new_points', name))
                  /\ name \notin DOMAIN results.point_results =>
                       results'.point_results[name].no_unit_conversion
                         = TrialPoints(new_points', name)[1].no_unit_conversion
      ]_vars

\* A trial has written a point under a name whose stored flag differs from
\* the point's flag, and the list of the name holds the point's value after
\* another one.
C24_Witness ==
    /\ pc = "run"
    /\ trial > 0
    /\ \E name \in DOMAIN results.point_results :
          /\ Len(results.point_results[name].result) >= 2
          /\ \E k \in DOMAIN TrialPoints(new_points, name) :
                TrialPoints(new_points, name)[k].no_unit_conversion
                  # results.point_results[name].no_unit_conversion

\* C28: the points of two point filters with different names have different
\* names, whatever their kind, so the values of the two filters are never
\* accumulated under one key.
C28_DifferentFiltersDifferentNames ==
    \A i, j \in DOMAIN new_points :
        run_config.point_filters[i].name # run_config.point_filters[j].name =>
            \A k \in DOMAIN new_points[i].points, l \in DOMAIN new_points[j].points :
                new_points[i].points[k].name # new_points[j].points[l].name

\* The point of the outcome whose name ends with the suffix, as a set.
Reported(outcome, suffix) ==
    {outcome.points[k] : k \in {n \in DOMAIN outcome.points :
                                   EndsWith(outcome.points[n].name, <<suffix>>)}}

\* C29: under the Largest policy the reported paint_time and the reported
\* area of LargestContentfulPaint are the two values of one record.
C29_PaintTimeAndAreaOfOneRecord ==
    \A i \in DOMAIN new_points :
        (run_config.point_filters[i].point_filter_type = "Largest" /\ ~new_points[i].panic) =>
            \A p \in Reported(new_points[i], "/paint_time"),
               a \in Reported(new_points[i], "/area") :
                \E c \in DOMAIN new_points[i].calls :
                    /\ Len(new_points[i].calls[c].points) = 2
                    /\ new_points[i].calls[c].points[1].point_type.value = p.point_type.value
                    /\ new_points[i].calls[c].points[2].point_type.value = a.point_type.value

----------------------------------------------------------------------------
(* device.rs: one capture on the device                                    *)
(*                                                                         *)
(* exec_hdc_commands is a sequence of hdc commands.  Command::output() is  *)
(* Err when the command could not be run and Ok otherwise, whatever the    *)
(* command answers; hdc is the list of the commands handed to output().    *)
(* Every return, by return or by ?, drops the MitmProxy when there is one. *)

\* A return that forgets the MitmProxy.
Return_without_drop(result) ==
    /\ exec_result' = result
    /\ pc' = "returned"

\* A return of exec_hdc_commands: the locals go out of scope, and
\* _mitmproxy is dropped when it holds a MitmProxy.
Return(result) ==
    /\ exec_result' = result
    /\ pc' = IF proxy.spawned THEN "drop" ELSE "returned"

\* which("hdc")? and the force-stop of the app.
ForceStop ==
    /\ pc = "exec_hdc_commands"
    /\ \E found \in BOOLEAN, ran \in BOOLEAN :
          IF ~found THEN Return("Err") /\ hdc' = hdc
          ELSE IF ~ran THEN Return("Err") /\ hdc' = Append(hdc, "force-stop")
          ELSE hdc' = Append(hdc, "force-stop") /\ pc' = "url" /\ exec_result' = exec_result
    /\ UNCHANGED <<build, traces, filters, diffs, file, parsed, reparsed,
                   point_filter, run_url, points, values, shuffled, stats,
                   results, bench, run_file, run_configs, run_config, trial,
                   new_points, proxy>>

\* A file url on a rooted device is uploaded first.
SendFile ==
    /\ pc = "url"
    /\ IF run_config.run_args.url_is_file /\ run_config.is_rooted
       THEN \E ran \in BOOLEAN :
               IF ~ran THEN Return("Err") /\ hdc' = Append(hdc, "file send")
               ELSE hdc' = Append(hdc, "file send") /\ pc' = "mitmproxy" /\ exec_result' = exec_result
       ELSE hdc' = hdc /\ pc' = "mitmproxy" /\ exec_result' = exec_result
    /\ UNCHANGED <<build, traces, filters, diffs, file, parsed, reparsed,
                   point_filter, run_url, points, values, shuffled, stats,
                   results, bench, run_file, run_configs, run_config, trial,
                   new_points, proxy>>

\* let _mitmproxy = if run_args.mitmproxy { MitmProxy::new().ok() } else
\* { None }: new() fails before the spawn or spawns mitmdump.
MitmProxyNew ==
    /\ pc = "mitmproxy"
    /\ IF run_config.run_args.mitmproxy
       THEN \E spawned \in BOOLEAN :
               proxy' = [spawned |-> spawned, alive |-> spawned,
                         killed |-> FALSE, waited |-> FALSE]
       ELSE proxy' = proxy
    /\ pc' = "trace_begin"
    /\ UNCHANGED <<build, traces, filters, diffs, file, parsed, reparsed,
                   point_filter, run_url, points, values, shuffled, stats,
                   results, bench, run_file, run_configs, run_config, trial,
                   new_points, hdc, exec_result>>

\* hitrace --trace_begin
TraceBegin ==
    /\ pc = "trace_begin"
    /\ \E ran \in BOOLEAN :
          IF ~ran THEN Return("Err") /\ hdc' = Append(hdc, "trace_begin")
          ELSE hdc' = Append(hdc, "trace_begin") /\ pc' = "start" /\ exec_result' = exec_result
    /\ UNCHANGED <<build, traces, filters, diffs, file, parsed, reparsed,
                   point_filter, run_url, points, values, shuffled, stats,
                   results, bench, run_file, run_configs, run_config, trial,
                   new_points, proxy>>

\* aa start of the ability, then the sleep.
StartAbility ==
    /\ pc = "start"
    /\ \E ran \in BOOLEAN :
          IF ~ran THEN Return("Err") /\ hdc' = Append(hdc, "aa start")
          ELSE hdc' = Append(hdc, "aa start") /\ pc' = "pidof" /\ exec_result' = exec_result
    /\ UNCHANGED <<build, traces, filters, diffs, file, parsed, reparsed,
                   point_filter, run_url, points, values, shuffled, stats,
                   results, bench, run_file, run_configs, run_config, trial,
                   new_points, proxy>>

\* pidof of the app; with an empty answer the trace is finished and the
\* function returns the error that the app did not start.
Pidof ==
    /\ pc = "pidof"
    /\ \E answer \in {"failed", "empty", "pid"} :
          CASE answer = "failed" -> Return("Err") /\ hdc' = Append(hdc, "pidof")
            [] answer = "empty" ->
                 hdc' = hdc \o <<"pidof", "trace_finish">> /\ Return("Err")
            [] answer = "pid" ->
                 hdc' = Append(hdc, "pidof") /\ pc' = "stop_tracing" /\ exec_result' = exec_result
    /\ UNCHANGED <<build, traces, filters, diffs, file, parsed, reparsed,
                   point_filter, run_url, points, values, shuffled, stats,
                   results, bench, run_file, run_configs, run_config, trial,
                   new_points, proxy>>

\* stop_tracing(buffer)?: which("hdc")?, then hitrace --trace_finish.
StopTracing ==
    /\ pc = "stop_tracing"
    /\ \E found \in BOOLEAN, ran \in BOOLEAN :
          IF ~found THEN Return("Err") /\ hdc' = hdc
          ELSE IF ~ran THEN Return("Err") /\ hdc' = Append(hdc, "trace_finish")
          ELSE hdc' = Append(hdc, "trace_finish") /\ pc' = "recv" /\ exec_result' = exec_result
    /\ UNCHANGED <<build, traces, filters, diffs, file, parsed, reparsed,
                   point_filter, run_url, points, values, shuffled, stats,
                   results, bench, run_file, run_configs, run_config, trial,
                   new_points, proxy>>

\* file recv of the capture; Ok(tmp_path).
Recv ==
    /\ pc = "recv"
    /\ \E ran \in BOOLEAN :
          IF ~ran THEN Return("Err") /\ hdc' = Append(hdc, "file recv")
          ELSE hdc' = Append(hdc, "file recv") /\ Return("Ok")
    /\ UNCHANGED <<build, traces, filters, diffs, file, parsed, reparsed,
                   point_filter, run_url, points, values, shuffled, stats,
                   results, bench, run_file, run_configs, run_config, trial,
                   new_points, proxy>>

\* mitmdump ends by itself.
ProxyExits ==
    /\ pc # "returned"
    /\ proxy.spawned /\ proxy.alive /\ ~proxy.killed
    /\ proxy' = [proxy EXCEPT !.alive = FALSE]
    /\ UNCHANGED <<build, pc, traces, filters, diffs, file, parsed, reparsed,
                   point_filter, run_url, points, values, shuffled, stats,
                   results, bench, run_file, run_configs, run_config, trial,
                   new_points, hdc, exec_result>>

\* impl Drop for MitmProxy: kill(), then wait(); an error of either is
\* logged.  wait() returns when the process has ended.
Drop ==
    /\ pc = "drop"
    /\ \E kill_ok \in BOOLEAN :
          /\ kill_ok \/ ~proxy.alive
          /\ proxy' = [proxy EXCEPT !.alive = FALSE, !.killed = TRUE, !.waited = TRUE]
    /\ pc' = "returned"
    /\ UNCHANGED <<build, traces, filters, diffs, file, parsed, reparsed,
                   point_filter, run_url, points, values, shuffled, stats,
                   results, bench, run_file, run_configs, run_config, trial,
                   new_points, hdc, exec_result>>

InitDevice ==
    /\ build = "release"
    /\ pc = "exec_hdc_commands"
    /\ traces = <<>>
    /\ filters = <<>>
    /\ diffs = NoDiffs
    /\ file = NoFile
    /\ parsed = NotRead
    /\ reparsed = <<>>
    /\ point_filter = NoPointFilter
    /\ run_url = <<>>
    /\ points = NoPoints
    /\ values = <<>>
    /\ shuffled = <<>>
    /\ stats = <<>>
    /\ results = <<>>
    /\ bench = <<>>
    /\ run_file = <<>>
    /\ run_configs = <<>>
    /\ run_config \in { [run_args |-> [mitmproxy |-> m, url_is_file |-> f], is_rooted |-> r] :
                          m \in BOOLEAN, f \in BOOLEAN, r \in BOOLEAN }
    /\ trial = 0
    /\ new_points = <<>>
    /\ hdc = <<>>
    /\ proxy = [spawned |-> FALSE, alive |-> FALSE, killed |-> FALSE, waited |-> FALSE]
    /\ exec_result = ""

NextDevice ==
    \/ ForceStop \/ SendFile \/ MitmProxyNew \/ TraceBegin \/ StartAbility
    \/ Pidof \/ StopTracing \/ Recv \/ ProxyExits \/ Drop

SpecDevice == InitDevice /\ [][NextDevice]_vars

----------------------------------------------------------------------------
(* Properties of the capture (SpecDevice)                                  *)

\* The command was issued, and issued after position i of the list.
IssuedAfter(command, i) == \E k \in (i + 1)..Len(hdc) : hdc[k] = command

\* C26: when exec_hdc_commands has returned and trace_begin was issued and
\* ran, a trace_finish was issued after it.
C26_TraceFinishedOnEveryPath ==
    pc = "returned" =>
        \A i \in DOMAIN hdc :
            (hdc[i] = "trace_begin" /\ i < Len(hdc)) => IssuedAfter("trace_finish", i)

\* C27: when exec_hdc_commands has returned and the proxy was spawned, the
\* drop has called kill and wait and the process has ended.
C27_ProxyEndsWithTheCapture ==
    (pc = "returned" /\ proxy.spawned) =>
        proxy.killed /\ proxy.waited /\ ~proxy.alive

\* The proxy was spawned, the tracing was begun and the function returned an
\* error without finishing the capture.
C27_Witness ==
    /\ pc = "returned"
    /\ exec_result = "Err"
    /\ proxy.spawned
    /\ IssuedAfter("aa start", 0)
    /\ ~IssuedAfter("file recv", 0)

----------------------------------------------------------------------------
(* The microsecond field of parsed records (SpecParse)                     *)

\* C30: every record of a successful read has a microsecond field below
\* 1,000,000, and for any two of them the 32-bit product in
\* difference_of_traces does not overflow and the duration is the exact
\* difference of the two time stamps.
C30_ParsedMicroBelowOneSecond ==
    (pc = "parsed" /\ parsed.kind = "ok") =>
        /\ \A i \in DOMAIN traces : traces[i].timestamp.micro < MicrosPerSecond
        /\ \A i, j \in DOMAIN traces :
              /\ ~MulThousandI32(traces[i].timestamp.micro
                                   - traces[j].timestamp.micro).overflow
              /\ ~difference_of_traces(traces[i], traces[j], "debug").panic
              /\ IsMicros(difference_of_traces(traces[i], traces[j], "release").dur,
                          Micros(traces[i].timestamp) - Micros(traces[j].timestamp))

====
